---- MODULE Spec2Model ----
(***************************************************************************)
(* Reinforced-concrete slab design: bar selection (core.py, utils.py) and  *)
(* the moment / reinforcement calculator (design.py).                      *)
(*                                                                         *)
(* Numbers.  The program computes with floats; the model computes with     *)
(* exact fixed-point integers.                                             *)
(*   - A steel area is a pair <<a, e>> standing for a*U + e*EPS with       *)
(*     U = 0.05 mm2/m (= 0.0005 cm2/m) and EPS = 0.25e-12 mm2/m.  The      *)
(*     second component carries the sub-resolution part that the program's *)
(*     1e-12 tolerances look at; pairs are compared lexicographically,     *)
(*     which is the real-number order because |e|*EPS < U.                 *)
(*   - The mm2 and the cm2 fields of a BarChoice hold the same pair: the   *)
(*     factor 100 between them is a change of unit.                        *)
(*   - A ratio provided/required is kept as the fraction [num, den].       *)
(*   - Spacings of S_GRID are in cm, bounds s_max / s_min in mm.           *)
(***************************************************************************)
EXTENDS Integers, Sequences, FiniteSets, TLC

\* db is the slab_designs table with its AUTOINCREMENT counter; tables are the
\* module-level tables every call reads; callers are the concurrent callers of
\* the second specification; search is the position of a bar-selection search
\* run loop iteration by loop iteration in the third
VARIABLES op, args, res, pc, db, tables, callers, search

vars == <<op, args, res, pc, db, tables, callers, search>>

-----------------------------------------------------------------------------
(* Exact arithmetic on area pairs *)

Zero2 == <<0, 0>>

One2 == <<1, 0>>

LT2(x, y) == x[1] < y[1] \/ (x[1] = y[1] /\ x[2] < y[2])

LE2(x, y) == x[1] < y[1] \/ (x[1] = y[1] /\ x[2] <= y[2])

Add2(x, y) == <<x[1] + y[1], x[2] + y[2]>>

\* x / 2.0 ; exact for the even components the model feeds it
Half2(x) == <<x[1] \div 2, x[2] \div 2>>

\* the program's 1e-12 compared against an area in mm2 (4 * EPS)
TolZero == <<0, 4>>

\* the program's 1e-12 added to an area in cm2 (1e-10 mm2 = 400 * EPS)
TolFit == <<0, 400>>

\* ratio = provided / required
Ratio(num, den) == [num |-> num, den |-> den]

\* the float 0.0 stored in a ratio field
RatioZero == [num |-> Zero2, den |-> One2]

\* r1 < r2 on ratio fields.  Every comparison the program makes is between two
\* ratios over the same required area or against no previous best.
RatioLT(r1, r2) ==
    IF r1.den = r2.den THEN LT2(r1.num, r2.num)
    ELSE r1.num[1] * r2.den[1] < r2.num[1] * r1.den[1]

-----------------------------------------------------------------------------
(* Bar catalog and area grid *)

\* bar diameters, mm, ascending
PHI_GRID == <<6, 8, 10, 12, 14, 16>>

\* spacings, cm, ascending
S_GRID == <<7, 8, 10, 12, 15, 18, 20, 25, 30>>

\* pi as the fraction PiNum / PiDen
PiNum == 355

PiDen == 113

\* as_cm2_per_m(phi_mm, s_cm): (pi * phi^2 / 4) * 1000 / (s_cm * 10), in units U
\* the area of one bar, whatever the spacing
as_cm2_per_m_OneBar(phi_mm, s_cm) == <<(PiNum * phi_mm * phi_mm * 5) \div PiDen, 0>>

as_cm2_per_m(phi_mm, s_cm) ==
    <<(PiNum * phi_mm * phi_mm * 500) \div (PiDen * s_cm), 0>>

AS_GRID == [si \in 1..Len(S_GRID) |->
               [pj \in 1..Len(PHI_GRID) |-> as_cm2_per_m(PHI_GRID[pj], S_GRID[si])]]

\* PHI_GRID.index(phi)
PhiIndex(phi) == CHOOSE j \in 1..Len(PHI_GRID) : PHI_GRID[j] = phi

PhiInGrid(phi) == \E j \in 1..Len(PHI_GRID) : PHI_GRID[j] = phi

-----------------------------------------------------------------------------
(* models.py *)

BarChoice(phi, s_cm, As_mm2, As_cm2, ratio) ==
    [phi |-> phi, s_cm |-> s_cm, As_prov_mm2_per_m |-> As_mm2,
     As_prov_cm2_per_m |-> As_cm2, ratio |-> ratio]

MainRebarLayout(straight, pilye, As_prov, As_req, ratio) ==
    [straight |-> straight, pilye |-> pilye,
     As_total_prov_mm2_per_m |-> As_prov,
     As_total_req_mm2_per_m |-> As_req, ratio |-> ratio]

\* Optional[...] = None
None == [phi |-> -1]

ZeroChoice == BarChoice(0, 0, Zero2, Zero2, RatioZero)

-----------------------------------------------------------------------------
(* utils.best_spacing_for_phi *)

\* utils.py:128  s < s_min_cm or s > s_max_cm  (s in cm, bounds in mm)
OutOfRange_NoMax(s, s_max_mm, s_min_mm) == s * 10 < s_min_mm

OutOfRange_DoubleMax(s, s_max_mm, s_min_mm) == s * 10 < s_min_mm \/ s * 10 > 2 * s_max_mm

OutOfRange(s, s_max_mm, s_min_mm) == s * 10 < s_min_mm \/ s * 10 > s_max_mm

\* utils.py:131  As_cm2 + 1e-12 < As_req_cm2
TooSmall_Never(As_cm2, As_req_cm2) == FALSE

TooSmall(As_cm2, As_req_cm2) == LT2(Add2(As_cm2, TolFit), As_req_cm2)

\* utils.py:135, core.py:60, core.py:81  best is None or cand.ratio < best.ratio
Better_Largest(cand, best) == best = None \/ RatioLT(best.ratio, cand.ratio)

Better(cand, best) == best = None \/ RatioLT(cand.ratio, best.ratio)

\* the loop over enumerate(S_GRID), from index si with the best so far
RECURSIVE ScanSpacings(_, _, _, _, _, _)
ScanSpacings(si, best, As_req_cm2, phi, s_max_mm, s_min_mm) ==
    IF si > Len(S_GRID) THEN best
    ELSE LET s == S_GRID[si]
             As_cm2 == AS_GRID[si][PhiIndex(phi)]
             cand == BarChoice(phi, s, As_cm2, As_cm2, Ratio(As_cm2, As_req_cm2))
             next == IF OutOfRange(s, s_max_mm, s_min_mm) THEN best
                     ELSE IF TooSmall(As_cm2, As_req_cm2) THEN best
                     ELSE IF Better(cand, best) THEN cand
                     ELSE best
         IN ScanSpacings(si + 1, next, As_req_cm2, phi, s_max_mm, s_min_mm)

best_spacing_for_phi(As_req, phi, s_max_mm, s_min_mm) ==
    IF LE2(As_req, TolZero) THEN BarChoice(phi, 0, Zero2, Zero2, RatioZero)
    ELSE IF ~PhiInGrid(phi) THEN None
    ELSE ScanSpacings(1, None, As_req, phi, s_max_mm, s_min_mm)

-----------------------------------------------------------------------------
(* core.choose_single_layer_rebar *)

RECURSIVE ScanPhiSingle(_, _, _, _, _, _)
ScanPhiSingle(pj, best, As_req, s_max_mm, s_min_mm, phi_min) ==
    IF pj > Len(PHI_GRID) THEN best
    ELSE LET phi == PHI_GRID[pj]
             cand == best_spacing_for_phi(As_req, phi, s_max_mm, s_min_mm)
             next == IF phi < phi_min THEN best
                     ELSE IF cand = None THEN best
                     ELSE IF Better(cand, best) THEN cand
                     ELSE best
         IN ScanPhiSingle(pj + 1, next, As_req, s_max_mm, s_min_mm, phi_min)

choose_single_layer_rebar_NoSentinel(As_req, s_max_mm, s_min_mm, phi_min) ==
    IF LE2(As_req, TolZero) THEN ZeroChoice
    ELSE ScanPhiSingle(1, None, As_req, s_max_mm, s_min_mm, phi_min)

choose_single_layer_rebar(As_req, s_max_mm, s_min_mm, phi_min) ==
    IF LE2(As_req, TolZero) THEN ZeroChoice
    ELSE LET best == ScanPhiSingle(1, None, As_req, s_max_mm, s_min_mm, phi_min)
         IN IF best # None THEN best ELSE ZeroChoice

choose_distribution_rebar(As_req) == choose_single_layer_rebar(As_req, 300, 70, 6)

-----------------------------------------------------------------------------
(* core.choose_main_rebar_half_half_same_phi *)

\* core.py:51
StraightFor(As_half, phi, s_max_mm, s_min_mm) ==
    best_spacing_for_phi(As_half, phi, s_max_mm, s_min_mm)

\* core.py:52, and the variant that optimises the bent layer over every diameter
PilyeFor_AnyPhi(As_half, phi, s_max_mm, s_min_mm) ==
    LET c == choose_single_layer_rebar(As_half, s_max_mm, s_min_mm, 0)
    IN IF c.phi = 0 THEN None ELSE c

PilyeFor(As_half, phi, s_max_mm, s_min_mm) ==
    best_spacing_for_phi(As_half, phi, s_max_mm, s_min_mm)

RECURSIVE ScanPhiMain(_, _, _, _, _, _)
ScanPhiMain(pj, best_layout, As_req, s_max_mm, s_min_mm, phi_min) ==
    IF pj > Len(PHI_GRID) THEN best_layout
    ELSE LET phi == PHI_GRID[pj]
             As_half == Half2(As_req)
             straight == StraightFor(As_half, phi, s_max_mm, s_min_mm)
             pilye == PilyeFor(As_half, phi, s_max_mm, s_min_mm)
             As_prov == Add2(straight.As_prov_mm2_per_m, pilye.As_prov_mm2_per_m)
             cand == MainRebarLayout(straight, pilye, As_prov, As_req,
                                     Ratio(As_prov, As_req))
             next == IF phi < phi_min THEN best_layout
                     ELSE IF straight = None \/ pilye = None THEN best_layout
                     ELSE IF Better(cand, best_layout) THEN cand
                     ELSE best_layout
         IN ScanPhiMain(pj + 1, next, As_req, s_max_mm, s_min_mm, phi_min)

choose_main_rebar_half_half_same_phi(As_req, s_max_mm, s_min_mm, phi_min) ==
    IF LE2(As_req, TolZero)
    THEN MainRebarLayout(ZeroChoice, ZeroChoice, Zero2, Zero2, RatioZero)
    ELSE LET best_layout == ScanPhiMain(1, None, As_req, s_max_mm, s_min_mm, phi_min)
         IN IF best_layout # None THEN best_layout
            ELSE MainRebarLayout(ZeroChoice, ZeroChoice, Zero2, As_req, RatioZero)

-----------------------------------------------------------------------------
(* Fixed-point quantities of the design calculation                        *)
(*   lengths mm; loads g, q in 1e-3 kN/m2, pd in 1e-4 kN/m2;               *)
(*   moments in 0.01 kNm/m; K_x1e5 in tenths; ks in 1e-3;                  *)
(*   coefficients, m and h_min as fractions [num, den].                    *)

Frac(n, d) == [num |-> n, den |-> d]

\* an assignment "x = v" followed by code e that reads x several times is
\* written The({e : x \in {v}}): v is computed once and x stands for its value
The(S) == CHOOSE r \in S : TRUE

Max(a, b) == IF a >= b THEN a ELSE b

Min(a, b) == IF a <= b THEN a ELSE b

Max2(x, y) == IF LT2(x, y) THEN y ELSE x

\* an area of a tenths of mm2/m, in units U
Area(a) == <<2 * a, 0>>

-----------------------------------------------------------------------------
(* constant.py: coefficient tables and the design chart *)

\* aspect-ratio nodes, m * 100
M_NODES == <<100, 110, 120, 130, 140, 150, 175, 200>>

\* coefficients in 1e-3; short_neg = <<>> where the table has none
SLAB_CASES == [c \in 1..7 |->
    CASE c = 1 -> [name |-> "four edges continuous",
                   short_pos |-> <<25, 30, 34, 38, 41, 45, 53, 62>>,
                   short_neg |-> <<33, 40, 45, 50, 54, 59, 71, 83>>,
                   long_pos |-> 25, long_neg |-> 33]
      [] c = 2 -> [name |-> "one edge discontinuous",
                   short_pos |-> <<31, 35, 40, 43, 46, 49, 56, 64>>,
                   short_neg |-> <<42, 47, 53, 57, 61, 65, 75, 85>>,
                   long_pos |-> 31, long_neg |-> 42]
      [] c = 3 -> [name |-> "two adjacent edges discontinuous",
                   short_pos |-> <<37, 42, 47, 50, 53, 55, 62, 68>>,
                   short_neg |-> <<49, 56, 62, 66, 70, 73, 82, 90>>,
                   long_pos |-> 37, long_neg |-> 49]
      [] c = 4 -> [name |-> "two short edges discontinuous",
                   short_pos |-> <<44, 46, 49, 51, 53, 55, 58, 60>>,
                   short_neg |-> <<56, 61, 65, 69, 71, 73, 77, 80>>,
                   long_pos |-> 44, long_neg |-> 0]
      [] c = 5 -> [name |-> "two long edges discontinuous",
                   short_pos |-> <<44, 53, 60, 65, 68, 71, 77, 80>>,
                   short_neg |-> <<>>,
                   long_pos |-> 44, long_neg |-> 56]
      [] c = 6 -> [name |-> "three edges discontinuous",
                   short_pos |-> <<44, 49, 54, 58, 61, 64, 69, 74>>,
                   short_neg |-> <<58, 65, 71, 77, 81, 85, 92, 98>>,
                   long_pos |-> 44, long_neg |-> 58]
      [] OTHER -> [name |-> "four edges discontinuous",
                   short_pos |-> <<50, 57, 62, 67, 71, 75, 81, 83>>,
                   short_neg |-> <<>>,
                   long_pos |-> 50, long_neg |-> 0]]

\* SLAB_CASES.get(slab_case, SLAB_CASES[7])
SlabCaseGet(slab_case) ==
    IF slab_case \in DOMAIN SLAB_CASES THEN SLAB_CASES[slab_case] ELSE SLAB_CASES[7]

ONEWAY_COEFFICIENTS ==
    [simple |-> [pos |-> Frac(1, 8), neg |-> Frac(0, 1)],
     one_end_continuous |-> [pos |-> Frac(1, 11), neg |-> Frac(1, 9)],
     both_ends_continuous |-> [pos |-> Frac(1, 15), neg |-> Frac(1, 10)]]

CONC_NODES == <<25, 30, 35, 40, 45, 50>>

\* rows <<breakpoint, K(C25), ..., K(C50), ks(S420), ks(B500)>>, K descending;
\* Python's row[k] is row[k + 1] here
K_TABLE_ROWS ==
    << <<2, 3565, 2971, 2546, 2228, 1981, 1783, 2767, 2322>>,
       <<4, 1801, 1501, 1286, 1125, 1000, 900, 2796, 2346>>,
       <<10, 743, 619, 531, 464, 413, 372, 2884, 2420>>,
       <<20, 392, 327, 280, 245, 218, 196, 3044, 2554>>,
       <<28, 293, 244, 209, 183, 163, 147, 3186, 2673>> >>

-----------------------------------------------------------------------------
(* utils.py: interpolation and material helpers *)

\* a + (b - a) * t with t = tn / td
lerp(a, b, tn, td) == a + ((b - a) * tn) \div td

\* _pts(vals): the dict {M_NODES[i]: vals[i]}
pts(vals) ==
    [k \in {M_NODES[i] : i \in 1..Len(M_NODES)} |->
        vals[CHOOSE i \in 1..Len(M_NODES) : M_NODES[i] = k]]

\* sorted(keys), ascending
RECURSIVE sorted(_)
sorted(keys) ==
    IF keys = {} THEN <<>>
    ELSE LET lo == CHOOSE k \in keys : \A j \in keys : k <= j
         IN <<lo>> \o sorted(keys \ {lo})

\* the first and the last segment are extended beyond the end keys
interp_piecewise_Extrapolate(points, x) ==
    LET x100 == 100 * x.num
    IN The({
       IF Len(xs) = 1 THEN Frac(points[xs[1]] * 100, 100000)
       ELSE LET hi == IF x100 > xs[Len(xs)] * x.den THEN Len(xs)
                      ELSE CHOOSE i \in 2..Len(xs) :
                               /\ xs[i] * x.den >= x100
                               /\ \A k \in 2..(i - 1) : xs[k] * x.den < x100
                lo == hi - 1
            IN Frac(lerp(points[xs[lo]] * 100, points[xs[hi]] * 100,
                         x100 - xs[lo] * x.den, (xs[hi] - xs[lo]) * x.den), 100000)
       : xs \in {sorted(DOMAIN points)}})

\* interp_piecewise(points, x) for x = the fraction m; keys are m * 100, values
\* 1e-3; the result is a coefficient in 1e-5, as a fraction
interp_piecewise(points, x) ==
    LET x100 == 100 * x.num
    IN The({
       IF x100 <= xs[1] * x.den THEN Frac(points[xs[1]] * 100, 100000)
       ELSE IF x100 >= xs[Len(xs)] * x.den THEN Frac(points[xs[Len(xs)]] * 100, 100000)
       ELSE LET hi == CHOOSE i \in 2..Len(xs) :
                          /\ xs[i] * x.den >= x100
                          /\ \A k \in 2..(i - 1) : xs[k] * x.den < x100
                lo == hi - 1
            IN Frac(lerp(points[xs[lo]] * 100, points[xs[hi]] * 100,
                         x100 - xs[lo] * x.den, (xs[hi] - xs[lo]) * x.den), 100000)
       : xs \in {sorted(DOMAIN points)}})

\* name.strip().upper() starts with "C", and float() of the rest; float()
\* accepts "inf", "-inf" and "nan" (special), for which value is unused
parse_concrete(name) ==
    IF name.letter \notin {"C", "c"} THEN [raised |-> "ValueError", value |-> 0, special |-> ""]
    ELSE IF ~name.numeric THEN [raised |-> "ValueError", value |-> 0, special |-> ""]
    ELSE [raised |-> "", value |-> name.value, special |-> name.special]

MIN_CONCRETE_GRADE == 25

\* the result is (ok, msg), or the exception that leaves the function; int() of
\* a NaN raises ValueError, which the handler catches, and int() of an infinity
\* raises OverflowError, which it does not
validate_concrete_grade(concrete) ==
    LET fck == parse_concrete(concrete)
    IN IF fck.raised = "ValueError" THEN [raised |-> "", ok |-> FALSE, msg |-> "format"]
       ELSE IF fck.special = "nan" THEN [raised |-> "", ok |-> FALSE, msg |-> "int(nan)"]
       ELSE IF fck.special \in {"inf", "-inf"} THEN [raised |-> "OverflowError"]
       ELSE IF fck.value < MIN_CONCRETE_GRADE
            THEN [raised |-> "", ok |-> FALSE, msg |-> "below minimum"]
       ELSE [raised |-> "", ok |-> TRUE, msg |-> "ok"]

\* "500" in name.strip().upper()
Has500(name) == name \in {"B500C", "B500", "S500"}

\* "220" in name.strip().upper()
Has220(name) == name \in {"S220", "s220"}

steel_group_Never500(name) == "S420"

steel_group(name) == IF Has500(name) THEN "B500" ELSE "S420"

\* in 1e-3
rho_min_oneway(steel) == IF Has220(steel) THEN 3 ELSE 2

K_row_concrete_value(row, fck) ==
    IF fck <= 25 THEN row[2]
    ELSE IF fck >= 50 THEN row[7]
    ELSE LET hi == CHOOSE i \in 2..Len(CONC_NODES) :
                       /\ CONC_NODES[i] >= fck
                       /\ \A k \in 2..(i - 1) : CONC_NODES[k] < fck
             lo == hi - 1
             f1 == CONC_NODES[lo]
             f2 == CONC_NODES[hi]
         IN lerp(row[lo + 1], row[hi + 1], fck - f1, f2 - f1)

\* the two clamps return each other's row
ks_from_Kcalc_SwappedClamps(Kcalc_x1e5, fck, steel) ==
    LET grp == steel_group(steel)
        n == Len(K_TABLE_ROWS)
        ksOf(r) == IF grp = "S420" THEN r[8] ELSE r[9]
    IN The({
        IF Kcalc_x1e5 >= Kvals[1] THEN ksOf(K_TABLE_ROWS[n])
        ELSE IF Kcalc_x1e5 <= Kvals[n] THEN ksOf(K_TABLE_ROWS[1])
        ELSE The({lerp(ksOf(K_TABLE_ROWS[i2 - 1]), ksOf(K_TABLE_ROWS[i2]),
                       Kcalc_x1e5 - Kvals[i2 - 1], Kvals[i2] - Kvals[i2 - 1])
                  : i2 \in {CHOOSE i \in 2..n :
                               /\ Kvals[i] <= Kcalc_x1e5
                               /\ \A k \in 2..(i - 1) : Kvals[k] > Kcalc_x1e5}})
        : Kvals \in {[i \in 1..n |-> K_row_concrete_value(K_TABLE_ROWS[i], fck)]}})

ks_from_Kcalc(Kcalc_x1e5, fck, steel) ==
    LET grp == steel_group(steel)
        n == Len(K_TABLE_ROWS)
        ksOf(r) == IF grp = "S420" THEN r[8] ELSE r[9]
    IN The({
        IF Kcalc_x1e5 >= Kvals[1] THEN ksOf(K_TABLE_ROWS[1])
        ELSE IF Kcalc_x1e5 <= Kvals[n] THEN ksOf(K_TABLE_ROWS[n])
        ELSE The({lerp(ksOf(K_TABLE_ROWS[i2 - 1]), ksOf(K_TABLE_ROWS[i2]),
                       Kcalc_x1e5 - Kvals[i2 - 1], Kvals[i2] - Kvals[i2 - 1])
                  : i2 \in {CHOOSE i \in 2..n :
                               /\ Kvals[i] <= Kcalc_x1e5
                               /\ \A k \in 2..(i - 1) : Kvals[k] > Kcalc_x1e5}})
        : Kvals \in {[i \in 1..n |-> K_row_concrete_value(K_TABLE_ROWS[i], fck)]}})

calculate_net_span_NoFloor(L_gross, beam_w_left_mm, beam_w_right_mm) ==
    L_gross - (beam_w_left_mm + beam_w_right_mm) \div 2

\* calculate_net_span, mm
calculate_net_span(L_gross, beam_w_left_mm, beam_w_right_mm) ==
    Max(L_gross - (beam_w_left_mm + beam_w_right_mm) \div 2, 100)

calculate_loads_Unfactored(h_mm, g_additional, q_live) ==
    <<h_mm * 25, h_mm * 25 + g_additional, q_live, 10 * (h_mm * 25 + g_additional) + 10 * q_live>>

\* calculate_loads: <<g_self_weight, g_total, q_live, pd_factored>>
calculate_loads(h_mm, g_additional, q_live) ==
    LET g_self_weight == h_mm * 25
        g_total == g_self_weight + g_additional
    IN <<g_self_weight, g_total, q_live, 14 * g_total + 16 * q_live>>

\* validate_coefficient_method_applicability: <<is_applicable, issues>>
validate_coefficient_method_applicability(q, g, L_min, L_max) ==
    LET qg == IF g > 0 THEN (IF q > 2 * g THEN <<"q/g > 2.0">> ELSE <<>>)
              ELSE <<"g = 0">>
        sp == IF L_max > 0
              THEN (IF 10 * L_min <= 8 * L_max THEN <<"Lmin/Lmax <= 0.8">> ELSE <<>>)
              ELSE <<"L_max = 0">>
        issues == qg \o sp
    IN <<Len(issues) = 0, issues>>

\* edge_continuity_note_for_case: the continuous and the discontinuous edges
edge_continuity_note_for_case(case_id, lx, ly) ==
    LET short_is_x == lx <= ly
        short_edges == IF short_is_x THEN <<"y=0", "y=ly">> ELSE <<"x=0", "x=lx">>
        long_edges == IF short_is_x THEN <<"x=0", "x=lx">> ELSE <<"y=0", "y=ly">>
        all == short_edges \o long_edges
        Without(s, d) == SelectSeq(s, LAMBDA e : \A i \in 1..Len(d) : d[i] # e)
    IN CASE case_id = 1 -> [cont |-> all, disc |-> <<>>]
         [] case_id = 7 -> [cont |-> <<>>, disc |-> all]
         [] case_id = 4 -> [cont |-> long_edges, disc |-> short_edges]
         [] case_id = 5 -> [cont |-> short_edges, disc |-> long_edges]
         [] case_id = 2 -> [cont |-> Without(all, <<long_edges[2]>>),
                            disc |-> <<long_edges[2]>>]
         [] case_id = 3 -> [cont |-> Without(all, <<long_edges[2], short_edges[2]>>),
                            disc |-> <<long_edges[2], short_edges[2]>>]
         [] case_id = 6 -> [cont |-> <<long_edges[1]>>,
                            disc |-> Without(all, <<long_edges[1]>>)]
         [] OTHER -> [cont |-> <<>>, disc |-> <<>>]

-----------------------------------------------------------------------------
(* core.calc_K_and_As_from_M: <<K_x1e5, ks, As>> *)

calc_K_and_As_from_M(M, d_mm, fck, steel) ==
    IF (IF M < 0 THEN -M ELSE M) <= 0 THEN <<0, 0, Zero2>>
    ELSE LET absM == IF M < 0 THEN -M ELSE M
             K_x1e5 == (d_mm * d_mm * 100) \div absM
         IN The({<<K_x1e5, ks, Area((ks * absM) \div (10 * d_mm))>>
                 : ks \in {ks_from_Kcalc(K_x1e5, fck, steel)}})

-----------------------------------------------------------------------------
(* design.py *)

FracGE(f, g) == f.num * g.den >= g.num * f.den

FracMax(f, g) == IF FracGE(f, g) THEN f ELSE g

ThicknessCheck(h_min_mm, ok, note) == [h_min_mm |-> h_min_mm, ok |-> ok, note |-> note]

\* design.py:331  ok = h_mm >= h_min, and the variant that never fails
thickness_check_oneway_AlwaysOk(Lsn, h_mm) ==
    ThicknessCheck(FracMax(Frac(Max(Lsn, 100), 30), Frac(80, 1)), TRUE, "one_way")

thickness_check_oneway(Lsn, h_mm) ==
    LET ln == Max(Lsn, 100)
        h_min == FracMax(Frac(ln, 30), Frac(80, 1))
    IN ThicknessCheck(h_min, FracGE(Frac(h_mm, 1), h_min), "one_way")

\* without the 80 mm floor
thickness_check_twoway_NoFloor(Lsn_short, Lsn_long, h_mm, alpha_s) ==
    LET m == IF Lsn_short > 10
             THEN FracMax(Frac(Lsn_long, Lsn_short), Frac(1, 1)) ELSE Frac(1, 1)
        h_min == Frac(Lsn_short * m.num * (4 - alpha_s), (15 * m.num + 20 * m.den) * 4)
    IN ThicknessCheck(h_min, FracGE(Frac(h_mm, 1), h_min), "two_way")

thickness_check_twoway(Lsn_short, Lsn_long, h_mm, alpha_s) ==
    LET m == IF Lsn_short > 10
             THEN FracMax(Frac(Lsn_long, Lsn_short), Frac(1, 1)) ELSE Frac(1, 1)
        h_min == FracMax(Frac(Lsn_short * m.num * (4 - alpha_s),
                              (15 * m.num + 20 * m.den) * 4),
                         Frac(80, 1))
    IN ThicknessCheck(h_min, FracGE(Frac(h_mm, 1), h_min), "two_way")

\* coefficient * base
MomentOf(coef, base) == (coef.num * base) \div coef.den

\* pd * L^2, in 0.01 kN
MomentBase(pd, L) == ((pd \div 10) * ((L * L) \div 1000)) \div 10000

\* the arguments every build_design call of one compute shares
Common(slab_type, data, case_name, m, L_short, L_long, Lsn_x, Lsn_y, d_mm, fck, s_max_bottom, s_max_top, edges_note) ==
    [slab_type |-> slab_type, slab_case |-> data.slab_case,
     slab_case_name |-> case_name, m |-> m, L_short |-> L_short, L_long |-> L_long,
     Lsn_x |-> Lsn_x, Lsn_y |-> Lsn_y, d_mm |-> d_mm, fck |-> fck,
     steel |-> data.steel, s_max_bottom_mm |-> s_max_bottom,
     s_max_top_mm |-> s_max_top, edges_note |-> edges_note]

build_design(direction, k, a_pos, M_pos, As_pos_req, a_neg, M_neg, As_neg_req, note_min) ==
    LET bottom_layout ==
            choose_main_rebar_half_half_same_phi(As_pos_req, k.s_max_bottom_mm, 70, 8)
        top_layout == choose_single_layer_rebar(As_neg_req, k.s_max_top_mm, 70, 8)
    IN The({
       [direction |-> direction,
        slab_type |-> k.slab_type,
        slab_case |-> k.slab_case,
        slab_case_name |-> k.slab_case_name,
        m |-> k.m,
        L_short |-> k.L_short,
        L_long |-> k.L_long,
        Lsn_x |-> k.Lsn_x,
        Lsn_y |-> k.Lsn_y,
        a_pos_used |-> a_pos,
        M_pos_kNm_per_m |-> M_pos,
        Kcalc_pos_x1e5 |-> pos[1],
        ks_pos |-> pos[2],
        As_pos_req_mm2_per_m |-> As_pos_req,
        main_bottom_layout |-> bottom_layout,
        a_neg_used |-> a_neg,
        M_neg_kNm_per_m |-> M_neg,
        Kcalc_neg_x1e5 |-> neg[1],
        ks_neg |-> neg[2],
        As_neg_req_mm2_per_m |-> As_neg_req,
        top_layout |-> top_layout,
        d_mm |-> k.d_mm,
        note_min |-> note_min,
        note_spacing |-> <<k.s_max_bottom_mm, k.s_max_top_mm>>,
        edges_continuity_note |-> k.edges_note,
        dist_As_req_mm2_per_m |-> Zero2,
        dist_bars |-> None]
       : pos \in {calc_K_and_As_from_M(M_pos, k.d_mm, k.fck, k.steel)},
         neg \in {calc_K_and_As_from_M(M_neg, k.d_mm, k.fck, k.steel)}})

\* design.py:124-131
CoefType(slab_case) ==
    IF slab_case = 7 THEN "simple"
    ELSE IF slab_case = 1 THEN "both_ends_continuous"
    ELSE IF slab_case \in {2, 3, 4, 5, 6} THEN "one_end_continuous"
    ELSE "simple"

\* design.py:166-176, 179-180  max(As_M, Asmin_main) if M > 0 else 0.0
AsReqOneway(M, As_M, Asmin_main) == IF M > 0 THEN Max2(As_M, Asmin_main) ELSE Zero2

\* design.py:214-217  max(As_main * 0.20, 0.0012 * b_mm * h_mm)
DistAsReq_MainOnly(As_main, h_mm) == <<As_main[1] \div 5, 0>>

DistAsReq(As_main, h_mm) == Max2(<<As_main[1] \div 5, 0>>, Area(12 * h_mm))

compute_oneway(data, pd, Lsn_x, Lsn_y, L_short, L_long, L_short_net, L_long_net, m, d_mm, fck, s_max_bottom, s_max_top, x_is_long, coef_msg) ==
    LET coef_type == CoefType(data.slab_case)
        coefs == ONEWAY_COEFFICIENTS[coef_type]
        base == MomentBase(pd, L_long_net)
        M_pos == MomentOf(coefs.pos, base)
        M_neg == IF "neg_cont" \in DOMAIN coefs THEN MomentOf(coefs.neg_cont, base)
                 ELSE MomentOf(coefs.neg, base)
        Mx_pos == IF x_is_long THEN M_pos ELSE 0
        My_pos == IF x_is_long THEN 0 ELSE M_pos
        Mx_neg == IF x_is_long THEN M_neg ELSE 0
        My_neg == IF x_is_long THEN 0 ELSE M_neg
        rho_min == rho_min_oneway(data.steel)
        Asmin_main == Area(rho_min * d_mm * 10)
        Asx_M == calc_K_and_As_from_M(Mx_pos, d_mm, fck, data.steel)[3]
        Asy_M == calc_K_and_As_from_M(My_pos, d_mm, fck, data.steel)[3]
        Asx_neg_M == calc_K_and_As_from_M(Mx_neg, d_mm, fck, data.steel)[3]
        Asy_neg_M == calc_K_and_As_from_M(My_neg, d_mm, fck, data.steel)[3]
        Asx_req == AsReqOneway(Mx_pos, Asx_M, Asmin_main)
        Asy_req == AsReqOneway(My_pos, Asy_M, Asmin_main)
        note_x == IF Mx_pos > 0 THEN "rho_min" ELSE ""
        note_y == IF My_pos > 0 THEN "rho_min" ELSE ""
        Asx_neg_req == AsReqOneway(Mx_neg, Asx_neg_M, Asmin_main)
        Asy_neg_req == AsReqOneway(My_neg, Asy_neg_M, Asmin_main)
        k == Common("one_way", data, SlabCaseGet(data.slab_case).name, m, L_short,
                    L_long, Lsn_x, Lsn_y, d_mm, fck, s_max_bottom, s_max_top,
                    [coef_type |-> coef_type, coef_msg |-> coef_msg])
    IN The({
        LET main == IF out_x.M_pos_kNm_per_m > 0 THEN out_x ELSE out_y
            distDir == IF main.direction = "X" THEN "Y" ELSE "X"
            dist_As_req == DistAsReq(main.As_pos_req_mm2_per_m, data.h_mm)
            withDist(o) ==
                IF o.direction = distDir /\ LT2(Zero2, main.As_pos_req_mm2_per_m)
                THEN [o EXCEPT !.dist_As_req_mm2_per_m = dist_As_req,
                               !.dist_bars = choose_distribution_rebar(dist_As_req),
                               !.note_min = "dist"]
                ELSE o
        IN <<withDist(out_x), withDist(out_y)>>
        : out_x \in {build_design("X", k, coefs.pos, Mx_pos, Asx_req,
                                  coefs.neg, Mx_neg, Asx_neg_req, note_x)},
          out_y \in {build_design("Y", k,
                                  IF My_pos > 0 THEN coefs.pos ELSE Frac(0, 1),
                                  My_pos, Asy_req, coefs.neg, My_neg, Asy_neg_req,
                                  note_y)}})

\* design.py:276-277  max(As_M, As_min_single), and the unclamped variant
AsPosReqTwoway_NoMin(As_M, As_min_single) == As_M

AsPosReqTwoway(As_M, As_min_single) == Max2(As_M, As_min_single)

\* design.py:281-289  <<Asx_pos_req, Asy_pos_req, note_total>>
ScaleToTotal(Asx_pos_req, Asy_pos_req, As_min_total) ==
    LET As_sum == Add2(Asx_pos_req, Asy_pos_req)
        scaled(a) == Area((a[1] * As_min_total[1]) \div (2 * As_sum[1]))
    IN IF LT2(As_sum, As_min_total) /\ LT2(TolZero, As_sum)
       THEN <<scaled(Asx_pos_req), scaled(Asy_pos_req), "scaled">>
       ELSE <<Asx_pos_req, Asy_pos_req, "ok">>

\* design.py:293-294  max(As_neg_M, As_top_min) if M_neg > 1e-12 else 0.0
AsNegReqTwoway_Always(M_neg, As_neg_M, As_top_min) == Max2(As_neg_M, As_top_min)

AsNegReqTwoway(M_neg, As_neg_M, As_top_min) ==
    IF M_neg > 0 THEN Max2(As_neg_M, As_top_min) ELSE Zero2

compute_twoway(data, pd, Lsn_x, Lsn_y, L_short, L_long, L_short_net, L_long_net, m, d_mm, fck, s_max_bottom, s_max_top, x_is_long) ==
    The({The({
        LET aL_pos == Frac(case.long_pos, 1000)
            aL_neg == Frac(case.long_neg, 1000)
            base == MomentBase(pd, L_short_net)
            M_short_pos == MomentOf(aS_pos, base)
            M_short_neg == MomentOf(aS_neg, base)
            M_long_pos == MomentOf(aL_pos, base)
            M_long_neg == MomentOf(aL_neg, base)
            Mx_pos == IF x_is_long THEN M_long_pos ELSE M_short_pos
            My_pos == IF x_is_long THEN M_short_pos ELSE M_long_pos
            Mx_neg == IF x_is_long THEN M_long_neg ELSE M_short_neg
            My_neg == IF x_is_long THEN M_short_neg ELSE M_long_neg
            ax_pos == IF x_is_long THEN aL_pos ELSE aS_pos
            ay_pos == IF x_is_long THEN aS_pos ELSE aL_pos
            ax_neg == IF x_is_long THEN aL_neg ELSE aS_neg
            ay_neg == IF x_is_long THEN aS_neg ELSE aL_neg
            As_min_single == Area(rho_min_oneway(data.steel) * d_mm * 10)
            As_min_total == Area(35 * d_mm)
            As_top_min == Area(20 * d_mm)
            k == Common("two_way", data, case.name, m, L_short, L_long, Lsn_x, Lsn_y,
                        d_mm, fck, s_max_bottom, s_max_top,
                        edge_continuity_note_for_case(data.slab_case, data.lx, data.ly))
        IN The({The({
               <<build_design("X", k, ax_pos, Mx_pos, req[1], ax_neg, Mx_neg,
                              AsNegReqTwoway(Mx_neg, Asx_neg_M, As_top_min), req[3]),
                 build_design("Y", k, ay_pos, My_pos, req[2], ay_neg, My_neg,
                              AsNegReqTwoway(My_neg, Asy_neg_M, As_top_min), req[3])>>
               : req \in {ScaleToTotal(AsPosReqTwoway(Asx_pos_M, As_min_single),
                                       AsPosReqTwoway(Asy_pos_M, As_min_single),
                                       As_min_total)}})
               : Asx_pos_M \in {calc_K_and_As_from_M(Mx_pos, d_mm, fck, data.steel)[3]},
                 Asy_pos_M \in {calc_K_and_As_from_M(My_pos, d_mm, fck, data.steel)[3]},
                 Asx_neg_M \in {calc_K_and_As_from_M(Mx_neg, d_mm, fck, data.steel)[3]},
                 Asy_neg_M \in {calc_K_and_As_from_M(My_neg, d_mm, fck, data.steel)[3]}})
        : aS_pos \in {interp_piecewise(pts(case.short_pos), m)},
          aS_neg \in {IF Len(case.short_neg) > 0
                      THEN interp_piecewise(pts(case.short_neg), m) ELSE Frac(0, 1)}})
        : case \in {SlabCaseGet(data.slab_case)}})

\* design.py:36  "one_way" if m > 2.0 else "two_way"
SlabType_Inclusive(m) == IF m.num >= 2 * m.den THEN "one_way" ELSE "two_way"

SlabType(m) == IF m.num > 2 * m.den THEN "one_way" ELSE "two_way"

compute(data) ==
    LET Lsn_x == calculate_net_span(data.lx, data.beam_w_left_x, data.beam_w_right_x)
        Lsn_y == calculate_net_span(data.ly, data.beam_w_left_y, data.beam_w_right_y)
        L_short_net == Min(Lsn_x, Lsn_y)
        L_long_net == Max(Lsn_x, Lsn_y)
        L_short == Min(data.lx, data.ly)
        L_long == Max(data.lx, data.ly)
        m == IF L_short_net > 10 THEN Frac(L_long_net, L_short_net) ELSE Frac(1, 1)
        slab_type == SlabType(m)
        loads == calculate_loads(data.h_mm, data.g_additional, data.q_live)
        pd == loads[4]
        load_analysis == [g_self_weight |-> loads[1],
                          g_additional |-> data.g_additional,
                          g_total |-> loads[2],
                          q_live |-> loads[3],
                          pd_factored |-> pd]
        coef == validate_coefficient_method_applicability(loads[3], loads[2],
                                                          L_short_net, L_long_net)
        thk == IF slab_type = "one_way"
               THEN thickness_check_oneway(L_long_net, data.h_mm)
               ELSE thickness_check_twoway(L_short_net, L_long_net, data.h_mm, 0)
        d_mm == Max(data.h_mm - data.cover_mm, 0)
        parsed == parse_concrete(data.concrete)
        fck == parsed.value
        s_max_bottom == Min((3 * data.h_mm) \div 2, 200)
        s_max_top == Min(2 * data.h_mm, 200)
        x_is_long == data.lx >= data.ly
    IN IF parsed.raised # "" THEN [raised |-> parsed.raised]
       ELSE The({[raised |-> "", out_x |-> outs[1], out_y |-> outs[2], thk |-> thk,
                  load |-> load_analysis]
                 : outs \in {IF slab_type = "one_way"
                             THEN compute_oneway(data, pd, Lsn_x, Lsn_y, L_short,
                                                 L_long, L_short_net, L_long_net, m,
                                                 d_mm, fck, s_max_bottom, s_max_top,
                                                 x_is_long, coef[2])
                             ELSE compute_twoway(data, pd, Lsn_x, Lsn_y, L_short,
                                                 L_long, L_short_net, L_long_net, m,
                                                 d_mm, fck, s_max_bottom, s_max_top,
                                                 x_is_long)}})

-----------------------------------------------------------------------------
(* Inputs of the bar-selection operations *)

\* required areas are probed at the multiples of 500 mm2/m up to MaxReqK steps
\* and at the areas of the grid (for the half-half search at their doubles, so that
\* the halves meet the grid), each with the fine offsets ReqFine
MaxReqK == 6

GridAreas == {AS_GRID[si][pj][1] : si \in 1..Len(S_GRID), pj \in 1..Len(PHI_GRID)}

ReqFine == {0, 4, 6, 8, 10, 400, 402, 800, 804}

ReqSteps == {k * 10000 : k \in 0..MaxReqK}

ReqAreasSingle == (ReqSteps \cup GridAreas) \X ReqFine

\* even first components, so that halving is exact
ReqAreasMain == (ReqSteps \cup {2 * a : a \in GridAreas}) \X ReqFine

SMaxSet == {60, 150, 200, 300}

SMinSet == {70, 100}

PhiMinSet == {6, 8, 18}

BarArgs(reqs) == [As_req : reqs, s_max : SMaxSet, s_min : SMinSet, phi_min : PhiMinSet]

(* database.create_design_result: the bar columns of a stored design *)

\* a rendered bar is "-" or the pair the text "O<phi>/<s>" is built from
format_bar(c) == IF c = None \/ c.phi <= 0 THEN "-" ELSE <<c.phi, c.s_cm>>

BottomMain(o) ==
    IF o.main_bottom_layout # None /\ o.main_bottom_layout.straight.phi > 0
    THEN format_bar(o.main_bottom_layout.straight) ELSE "-"

BottomPilye(o) ==
    IF o.main_bottom_layout # None /\ o.main_bottom_layout.straight.phi > 0
    THEN format_bar(o.main_bottom_layout.pilye) ELSE "-"

DistBars(out_x, out_y) ==
    IF out_x.dist_bars # None /\ out_x.dist_bars.phi > 0 THEN format_bar(out_x.dist_bars)
    ELSE IF out_y.dist_bars # None /\ out_y.dist_bars.phi > 0 THEN format_bar(out_y.dist_bars)
    ELSE "-"

create_design_result(out_x, out_y) ==
    [x_bottom_main |-> BottomMain(out_x), x_bottom_pilye |-> BottomPilye(out_x),
     x_top |-> format_bar(out_x.top_layout),
     y_bottom_main |-> BottomMain(out_y), y_bottom_pilye |-> BottomPilye(out_y),
     y_top |-> format_bar(out_y.top_layout),
     distribution_bars |-> DistBars(out_x, out_y)]

(* Inputs of compute *)

SpanSet == {2000, 3300, 5000, 6300}

BeamSet == {<<300, 300>>, <<250, 350>>}

Grade(letter, numeric, value, special) == [letter |-> letter, numeric |-> numeric, value |-> value, special |-> special]

\* "C30", "c37", "B30", "Cabc"
ConcreteSet == {Grade("C", TRUE, 30, ""), Grade("c", TRUE, 37, ""),
                Grade("B", TRUE, 30, ""), Grade("C", FALSE, 0, "")}

\* also "C20", "C24", "C25", "C-5", "b", "Cinf", "C-inf", "Cnan"
GradeSet ==
    ConcreteSet \cup
    {Grade("C", TRUE, 20, ""), Grade("C", TRUE, 24, ""), Grade("c", TRUE, 25, ""),
     Grade("C", TRUE, -5, ""), Grade("b", FALSE, 0, ""), Grade("C", TRUE, 0, "inf"),
     Grade("c", TRUE, 0, "-inf"), Grade("C", TRUE, 0, "nan")}

SteelSet == {"S220", "S420", "B500C"}

\* 1e-3 kN/m2; under the heaviest load no catalog bar fits the long spans
LiveLoadSet == {2000, 5000, 20000}

\* <<x beams, y beams>>; the wide x beams make the net spans order differently
\* from the gross spans
BeamCombos == ({<<300, 300>>} \X BeamSet) \cup {<<<<1200, 1200>>, <<300, 300>>>>}

Input(lx, ly, bm, h, c, s, g, q, sc) ==
    [lx |-> lx, ly |-> ly,
     beam_w_left_x |-> bm[1][1], beam_w_right_x |-> bm[1][2],
     beam_w_left_y |-> bm[2][1], beam_w_right_y |-> bm[2][2],
     h_mm |-> h, cover_mm |-> 20, concrete |-> c, steel |-> s,
     g_additional |-> g, q_live |-> q, slab_case |-> sc]

\* the second set: a 1.0 m span between 1.2 m wide beams, where the deduction
\* exceeds the span
InputData ==
    {Input(lx, ly, bm, h, c, s, 1500, q, sc) :
        lx \in SpanSet, ly \in SpanSet, bm \in BeamCombos, h \in {100, 150},
        c \in ConcreteSet, s \in SteelSet, q \in LiveLoadSet, sc \in 1..7}
    \cup
    {Input(1000, ly, <<<<1200, 1200>>, <<300, 300>>>>, 100, c, s, g, 5000, sc) :
        ly \in SpanSet, c \in ConcreteSet, s \in SteelSet, g \in {0, 1500, 3000},
        sc \in 1..7}

(* Inputs of ks_from_Kcalc: two chart entries for one grade and steel *)

\* K x 1e5: below, at, between and above the chart rows of the grades in FckSet
KSet == {100, 147, 244, 250, 293, 300, 327, 400, 583, 619, 700, 1501, 2000, 2801, 2971,
         3565, 4000}

FckSet == {20, 25, 30, 32, 50, 60}

ChartSteelSet == SteelSet \cup {"S500"}

ChartArgs == [K1 : KSet, K2 : KSet, fck : FckSet, steel : ChartSteelSet]

(* Inputs of interp_piecewise *)

\* dicts {key: value}: a table of SLAB_CASES, values that rise and fall, equal
\* values, and a single point
PointsSet ==
    {pts(SLAB_CASES[1].short_pos),
     (150 :> 20) @@ (100 :> 50) @@ (200 :> 40),
     (100 :> 25) @@ (175 :> 25),
     (120 :> 30)}

\* x = n / 40, from 0.75 to 2.25
XSet == {Frac(n, 40) : n \in 30..90}

InterpArgs == [points : PointsSet, x : XSet]

(* Two cells of AS_GRID *)

CellArgs == [si : 1..Len(S_GRID), pj : 1..Len(PHI_GRID),
             si2 : 1..Len(S_GRID), pj2 : 1..Len(PHI_GRID)]

(* Inputs of best_spacing_for_phi *)

\* diameters of the catalog and others
PhiCallSet == {5, 6, 7, 8, 13, 16, 18, 20}

BestArgs == [As_req : ReqSteps \X {0, 4, 6, 400}, phi : PhiCallSet, s_max : SMaxSet, s_min : SMinSet]

(* Inputs of the thickness checks *)

\* net spans, mm
LsnSet == {5, 50, 100, 2400, 3000, 3300, 3500, 6000}

ThkArgs == [Lsn_short : LsnSet, Lsn_long : LsnSet, h_mm : {80, 100, 120, 150}, alpha_s : {0, 1}]

-----------------------------------------------------------------------------
(* database.SlabDatabase: the table slab_designs *)

\* the largest row id the model hands out
MaxRowId == 3

SlabIds == {"S1", "S2"}

\* SlabDesignResult, reduced to the key, a flag and the creation time
SlabDesignResults == [slab_id : SlabIds, thickness_ok : BOOLEAN, created_at : {1, 2}, notes : {""}]

\* _init_db on a new file: no rows, no row id handed out
EmptyDb == [rows |-> {}, seq |-> 0]

\* the VALUES tuple of save_design under the row id
RowOf(id, result) ==
    [id |-> id, slab_id |-> result.slab_id,
     thickness_ok |-> IF result.thickness_ok THEN 1 ELSE 0,
     created_at |-> result.created_at, notes |-> result.notes]

_row_to_result(row) ==
    [slab_id |-> row.slab_id, thickness_ok |-> row.thickness_ok # 0,
     created_at |-> row.created_at, notes |-> IF row.notes = "" THEN "" ELSE row.notes]

\* INSERT without OR REPLACE and without the UNIQUE constraint
save_design_PlainInsert(d, result) ==
    [rows |-> d.rows \cup {RowOf(d.seq + 1, result)}, seq |-> d.seq + 1]

\* INSERT OR REPLACE: the row in conflict on the UNIQUE slab_id is deleted and
\* the new row takes the next AUTOINCREMENT id
save_design(d, result) ==
    [rows |-> {r \in d.rows : r.slab_id # result.slab_id} \cup {RowOf(d.seq + 1, result)},
     seq |-> d.seq + 1]

\* cursor.fetchone() of the SELECT by slab_id
get_design(d, slab_id) ==
    IF \E r \in d.rows : r.slab_id = slab_id
    THEN _row_to_result(CHOOSE r \in d.rows : r.slab_id = slab_id)
    ELSE None

\* the lists ORDER BY created_at DESC allows; rows of equal created_at come in
\* any order
list_designs(d) ==
    {[i \in 1..Cardinality(d.rows) |-> _row_to_result(s[i])] :
        s \in {s \in [1..Cardinality(d.rows) -> d.rows] :
                  /\ \A i, j \in 1..Cardinality(d.rows) : i # j => s[i] # s[j]
                  /\ \A i, j \in 1..Cardinality(d.rows) :
                         i < j => s[i].created_at >= s[j].created_at}}

\* <<the table after the DELETE, rowcount > 0>>
delete_design(d, slab_id) ==
    <<[rows |-> {r \in d.rows : r.slab_id # slab_id}, seq |-> d.seq],
      Cardinality({r \in d.rows : r.slab_id = slab_id}) > 0>>

-----------------------------------------------------------------------------
(* Several callers of the core operations *)

\* the module-level tables after import
SharedTables ==
    [PHI_GRID |-> PHI_GRID, S_GRID |-> S_GRID, AS_GRID |-> AS_GRID,
     K_TABLE_ROWS |-> K_TABLE_ROWS, SLAB_CASES |-> SLAB_CASES]

Callers == {1, 2}

Call(name, a) == [op |-> name, args |-> a]

\* two calls of each core operation
Calls ==
    {Call("compute", Input(5000, 6300, <<<<300, 300>>, <<300, 300>>>>, 150,
                           Grade("C", TRUE, 30, ""), "S420", 1500, 5000, 1)),
     Call("compute", Input(2000, 6300, <<<<300, 300>>, <<250, 350>>>>, 100,
                           Grade("C", TRUE, 30, ""), "B500C", 1500, 2000, 7)),
     Call("choose_single_layer_rebar", <<<<20000, 0>>, 200, 70, 8>>),
     Call("choose_single_layer_rebar", <<<<0, 0>>, 200, 70, 8>>),
     Call("choose_main_rebar_half_half_same_phi", <<<<20000, 0>>, 150, 70, 8>>),
     Call("choose_main_rebar_half_half_same_phi", <<<<400000, 0>>, 150, 70, 8>>),
     Call("choose_distribution_rebar", <<<<3600, 0>>>>),
     Call("choose_distribution_rebar", <<<<10000, 0>>>>),
     Call("best_spacing_for_phi", <<<<20000, 0>>, 10, 200, 70>>),
     Call("best_spacing_for_phi", <<<<20000, 0>>, 7, 200, 70>>),
     Call("ks_from_Kcalc", <<250, 30, "S420">>),
     Call("ks_from_Kcalc", <<2000, 32, "B500C">>),
     Call("interp_piecewise", <<pts(SLAB_CASES[1].short_pos), Frac(5, 4)>>),
     Call("interp_piecewise", <<pts(SLAB_CASES[2].short_neg), Frac(9, 4)>>)}

\* the value the call returns
Run(call) ==
    LET a == call.args
    IN CASE call.op = "compute" -> compute(a)
         [] call.op = "choose_single_layer_rebar" ->
                choose_single_layer_rebar(a[1], a[2], a[3], a[4])
         [] call.op = "choose_main_rebar_half_half_same_phi" ->
                choose_main_rebar_half_half_same_phi(a[1], a[2], a[3], a[4])
         [] call.op = "choose_distribution_rebar" -> choose_distribution_rebar(a[1])
         [] call.op = "best_spacing_for_phi" -> best_spacing_for_phi(a[1], a[2], a[3], a[4])
         [] call.op = "ks_from_Kcalc" -> ks_from_Kcalc(a[1], a[2], a[3])
         [] call.op = "interp_piecewise" -> interp_piecewise(a[1], a[2])

\* a search that sorts the shared spacing list in place, descending
TablesAfter_SortsSpacings(call, t) ==
    IF call.op \in {"best_spacing_for_phi", "choose_single_layer_rebar"}
    THEN [t EXCEPT !.S_GRID = [i \in 1..Len(t.S_GRID) |-> t.S_GRID[Len(t.S_GRID) + 1 - i]]]
    ELSE t

\* the module tables after the call: no core operation assigns to a table or
\* to an element of one
TablesAfter(call, t) == t

InitCallers ==
    /\ op = "callers" /\ args = <<>> /\ res = <<>> /\ pc = "call"
    /\ db = EmptyDb
    /\ tables = SharedTables
    /\ search = <<>>
    /\ callers \in [Callers -> {[pc |-> "idle", call |-> c, read |-> <<>>, res |-> <<>>] : c \in Calls}]

\* the caller enters its operation, which reads the tables as they are
Begin(c) ==
    /\ op = "callers" /\ callers[c].pc = "idle"
    /\ callers' = [callers EXCEPT ![c].pc = "running", ![c].read = tables]
    /\ UNCHANGED <<op, args, res, pc, db, tables, search>>

\* the operation returns: its value belongs to the tables it read
Finish(c) ==
    /\ op = "callers" /\ callers[c].pc = "running"
    /\ callers' = [callers EXCEPT ![c].pc = "done", ![c].res = Run(callers[c].call)]
    /\ tables' = TablesAfter(callers[c].call, tables)
    /\ UNCHANGED <<op, args, res, pc, db, search>>

NextCallers == \E c \in Callers : Begin(c) \/ Finish(c)

SpecCallers == InitCallers /\ [][NextCallers]_vars

-----------------------------------------------------------------------------
(* The two searches of core.py, one loop iteration per step *)

\* zero, inside the tolerance band, feasible, feasible for large bars only,
\* beyond the catalog
SearchAreas == {<<0, 0>>, <<0, 6>>, <<20000, 0>>, <<60000, 0>>, <<400000, 0>>}

SearchInputs == [kind : {"single", "main"}, a : BarArgs(SearchAreas)]

\* the position before the first statement, with nothing visited
SearchAt(inp) ==
    [kind |-> inp.kind, a |-> inp.a, pc |-> "start", pj |-> 0, pass |-> 0, si |-> 0,
     ibest |-> None, straight |-> None, best |-> None, result |-> None,
     vphi |-> [j \in 1..Len(PHI_GRID) |-> 0],
     vs |-> [j \in 1..Len(PHI_GRID) |-> [i \in 1..Len(S_GRID) |-> 0]]]

\* the area handed to best_spacing_for_phi
Target(s) == IF s.kind = "single" THEN s.a.As_req ELSE Half2(s.a.As_req)

\* the value returned when the loop ends without a best
Fallback(s) ==
    IF s.kind = "single" THEN ZeroChoice
    ELSE MainRebarLayout(ZeroChoice, ZeroChoice, Zero2, s.a.As_req, RatioZero)

\* the best after the diameter's per-diameter results r1, r2 (the single search
\* has r1 = r2 = its candidate)
Keep(s, r1, r2) ==
    IF r1 = None \/ r2 = None THEN s.best
    ELSE IF s.kind = "single" THEN (IF Better(r1, s.best) THEN r1 ELSE s.best)
    ELSE LET As_prov == Add2(r1.As_prov_mm2_per_m, r2.As_prov_mm2_per_m)
             cand == MainRebarLayout(r1, r2, As_prov, s.a.As_req, Ratio(As_prov, s.a.As_req))
         IN IF Better(cand, s.best) THEN cand ELSE s.best

\* the loop never leaves the spacing it is at
NextSpacing_Stuck(si) == si

\* enumerate(S_GRID) moves to the next spacing
NextSpacing(si) == si + 1

InitSearch ==
    /\ op = "search" /\ args = <<>> /\ res = <<>> /\ pc = "call"
    /\ db = EmptyDb /\ tables = SharedTables /\ callers = <<>>
    /\ search \in {SearchAt(inp) : inp \in SearchInputs}

\* the near-zero test before the loop
SearchStart ==
    /\ op = "search" /\ search.pc = "start"
    /\ search' =
           IF LE2(search.a.As_req, TolZero)
           THEN [search EXCEPT !.pc = "returned",
                    !.result = IF search.kind = "single" THEN ZeroChoice
                               ELSE MainRebarLayout(ZeroChoice, ZeroChoice, Zero2, Zero2, RatioZero)]
           ELSE [search EXCEPT !.pc = "outer", !.pj = 1]
    /\ UNCHANGED <<op, args, res, pc, db, tables, callers>>

\* "for phi in PHI_GRID": the next diameter, or the return after the last one
SearchOuter ==
    /\ op = "search" /\ search.pc = "outer"
    /\ search' =
           IF search.pj > Len(PHI_GRID)
           THEN [search EXCEPT !.pc = "returned",
                    !.result = IF search.best # None THEN search.best ELSE Fallback(search)]
           ELSE LET phi == PHI_GRID[search.pj]
                    seen == [search EXCEPT !.vphi[search.pj] = @ + 1]
                    zero == BarChoice(phi, 0, Zero2, Zero2, RatioZero)
                IN IF phi < search.a.phi_min THEN [seen EXCEPT !.pj = @ + 1]
                   ELSE IF LE2(Target(search), TolZero)
                        THEN [seen EXCEPT !.best = Keep(search, zero, zero), !.pj = @ + 1]
                   ELSE [seen EXCEPT !.pc = "inner", !.pass = 1, !.si = 1, !.ibest = None]
    /\ UNCHANGED <<op, args, res, pc, db, tables, callers>>

\* "for si, s in enumerate(S_GRID)": one spacing
SearchInner ==
    /\ op = "search" /\ search.pc = "inner" /\ search.si <= Len(S_GRID)
    /\ LET s == S_GRID[search.si]
           As_cm2 == AS_GRID[search.si][search.pj]
           cand == BarChoice(PHI_GRID[search.pj], s, As_cm2, As_cm2, Ratio(As_cm2, Target(search)))
           next == IF OutOfRange(s, search.a.s_max, search.a.s_min) THEN search.ibest
                   ELSE IF TooSmall(As_cm2, Target(search)) THEN search.ibest
                   ELSE IF Better(cand, search.ibest) THEN cand
                   ELSE search.ibest
       IN search' = [search EXCEPT !.vs[search.pj][search.si] = @ + 1,
                                   !.ibest = next, !.si = NextSpacing(search.si)]
    /\ UNCHANGED <<op, args, res, pc, db, tables, callers>>

\* best_spacing_for_phi returns: the next call for the same diameter (the
\* half-half search calls it twice), or the comparison with the best so far
SearchInnerDone ==
    /\ op = "search" /\ search.pc = "inner" /\ search.si > Len(S_GRID)
    /\ search' =
           IF search.kind = "main" /\ search.pass = 1
           THEN [search EXCEPT !.straight = search.ibest, !.pass = 2, !.si = 1, !.ibest = None]
           ELSE [search EXCEPT
                    !.best = IF search.kind = "single"
                             THEN Keep(search, search.ibest, search.ibest)
                             ELSE Keep(search, search.straight, search.ibest),
                    !.pc = "outer", !.pj = @ + 1]
    /\ UNCHANGED <<op, args, res, pc, db, tables, callers>>

NextSearch == SearchStart \/ SearchOuter \/ SearchInner \/ SearchInnerDone

\* the interpreter keeps running the call
SpecSearch == InitSearch /\ [][NextSearch]_vars /\ WF_vars(NextSearch)

\* a caller picks an operation and its inputs; the operation runs once
Init ==
    /\ pc = "call"
    /\ res = <<>>
    /\ db = EmptyDb
    /\ tables = SharedTables
    /\ callers = <<>>
    /\ search = <<>>
    /\ \/ op = "choose_single_layer_rebar" /\ args \in BarArgs(ReqAreasSingle)
       \/ op = "choose_main_rebar_half_half_same_phi" /\ args \in BarArgs(ReqAreasMain)
       \/ op = "compute" /\ args \in InputData
       \/ op = "validate_concrete_grade" /\ args \in GradeSet
       \/ op = "ks_from_Kcalc" /\ args \in ChartArgs
       \/ op = "interp_piecewise" /\ args \in InterpArgs
       \/ op = "AS_GRID" /\ args \in CellArgs
       \/ op = "best_spacing_for_phi" /\ args \in BestArgs
       \/ op = "thickness_check_oneway" /\ args \in {a \in ThkArgs : a.Lsn_short = a.Lsn_long /\ a.alpha_s = 0}
       \/ op = "thickness_check_twoway" /\ args \in ThkArgs
       \/ op = "database" /\ args = <<>>

CallSingle ==
    /\ pc = "call" /\ op = "choose_single_layer_rebar"
    /\ res' = choose_single_layer_rebar(args.As_req, args.s_max, args.s_min, args.phi_min)
    /\ pc' = "done"
    /\ UNCHANGED <<op, args, db, tables, callers, search>>

CallMain ==
    /\ pc = "call" /\ op = "choose_main_rebar_half_half_same_phi"
    /\ res' = choose_main_rebar_half_half_same_phi(args.As_req, args.s_max,
                                                   args.s_min, args.phi_min)
    /\ pc' = "done"
    /\ UNCHANGED <<op, args, db, tables, callers, search>>

CallCompute ==
    /\ pc = "call" /\ op = "compute"
    /\ res' = compute(args)
    /\ pc' = "done"
    /\ UNCHANGED <<op, args, db, tables, callers, search>>

CallValidateConcreteGrade ==
    /\ pc = "call" /\ op = "validate_concrete_grade"
    /\ res' = validate_concrete_grade(args)
    /\ pc' = "done"
    /\ UNCHANGED <<op, args, db, tables, callers, search>>

\* the chart is read at K1 and at K2
CallKs ==
    /\ pc = "call" /\ op = "ks_from_Kcalc"
    /\ res' = <<ks_from_Kcalc(args.K1, args.fck, args.steel),
                ks_from_Kcalc(args.K2, args.fck, args.steel)>>
    /\ pc' = "done"
    /\ UNCHANGED <<op, args, db, tables, callers, search>>

CallInterp ==
    /\ pc = "call" /\ op = "interp_piecewise"
    /\ res' = interp_piecewise(args.points, args.x)
    /\ pc' = "done"
    /\ UNCHANGED <<op, args, db, tables, callers, search>>

\* the catalog is read at two cells
ReadGrid ==
    /\ pc = "call" /\ op = "AS_GRID"
    /\ res' = <<AS_GRID[args.si][args.pj], AS_GRID[args.si2][args.pj2]>>
    /\ pc' = "done"
    /\ UNCHANGED <<op, args, db, tables, callers, search>>

CallBestSpacing ==
    /\ pc = "call" /\ op = "best_spacing_for_phi"
    /\ res' = best_spacing_for_phi(args.As_req, args.phi, args.s_max, args.s_min)
    /\ pc' = "done"
    /\ UNCHANGED <<op, args, db, tables, callers, search>>

CallThicknessOneway ==
    /\ pc = "call" /\ op = "thickness_check_oneway"
    /\ res' = thickness_check_oneway(args.Lsn_long, args.h_mm)
    /\ pc' = "done"
    /\ UNCHANGED <<op, args, db, tables, callers, search>>

CallThicknessTwoway ==
    /\ pc = "call" /\ op = "thickness_check_twoway"
    /\ res' = thickness_check_twoway(args.Lsn_short, args.Lsn_long, args.h_mm, args.alpha_s)
    /\ pc' = "done"
    /\ UNCHANGED <<op, args, db, tables, callers, search>>

\* the calls of a session on one database file, in any order
SaveDesign ==
    /\ op = "database" /\ db.seq < MaxRowId
    /\ \E result \in SlabDesignResults :
           /\ args' = [call |-> "save_design", result |-> result]
           /\ db' = save_design(db, result)
           /\ res' = db'.seq
    /\ pc' = "done"
    /\ UNCHANGED <<op, tables, callers, search>>

GetDesign ==
    /\ op = "database"
    /\ \E slab_id \in SlabIds :
           /\ args' = [call |-> "get_design", slab_id |-> slab_id]
           /\ res' = get_design(db, slab_id)
    /\ pc' = "done"
    /\ UNCHANGED <<op, db, tables, callers, search>>

ListDesigns ==
    /\ op = "database"
    /\ args' = [call |-> "list_designs"]
    /\ res' \in list_designs(db)
    /\ pc' = "done"
    /\ UNCHANGED <<op, db, tables, callers, search>>

DeleteDesign ==
    /\ op = "database"
    /\ \E slab_id \in SlabIds :
           /\ args' = [call |-> "delete_design", slab_id |-> slab_id]
           /\ db' = delete_design(db, slab_id)[1]
           /\ res' = delete_design(db, slab_id)[2]
    /\ pc' = "done"
    /\ UNCHANGED <<op, tables, callers, search>>

\* a completed design is stored: its bar columns are rendered
CallCreateDesignResult ==
    /\ pc = "done" /\ op = "compute" /\ res.raised = ""
    /\ res' = [f \in DOMAIN res \cup {"row"} |->
                   IF f = "row" THEN create_design_result(res.out_x, res.out_y)
                   ELSE res[f]]
    /\ pc' = "stored"
    /\ UNCHANGED <<op, args, db, tables, callers, search>>

Next ==
    \/ CallSingle \/ CallMain \/ CallCompute \/ CallCreateDesignResult
    \/ CallValidateConcreteGrade \/ CallKs \/ CallInterp \/ ReadGrid
    \/ CallBestSpacing \/ CallThicknessOneway \/ CallThicknessTwoway
    \/ SaveDesign \/ GetDesign \/ ListDesigns \/ DeleteDesign

Spec == Init /\ [][Next]_vars

-----------------------------------------------------------------------------
(* Properties of the bar-selection engine *)

DoneSingle == pc = "done" /\ op = "choose_single_layer_rebar"

DoneMain == pc = "done" /\ op = "choose_main_rebar_half_half_same_phi"

Pairs == (1..Len(PHI_GRID)) \X (1..Len(S_GRID))

\* the catalog pair p = <<pj, si>> lies within the bounds of the request a
InBounds(p, a) ==
    /\ PHI_GRID[p[1]] >= a.phi_min
    /\ S_GRID[p[2]] * 10 >= a.s_min
    /\ S_GRID[p[2]] * 10 <= a.s_max

AreaOf(p) == AS_GRID[p[2]][p[1]]

\* p provides the area req, up to the acceptance tolerance of 1e-12 cm2/m
Provides(p, req) == LE2(req, Add2(AreaOf(p), TolFit))

Feasible(a, req) == \E p \in Pairs : InBounds(p, a) /\ Provides(p, req)

\* the choice c is the catalog pair p
IsPair(c, p) ==
    /\ c.phi = PHI_GRID[p[1]]
    /\ c.s_cm = S_GRID[p[2]]
    /\ c.As_prov_mm2_per_m = AreaOf(p)

\* ratio >= 1.0
RatioGE1(r) == LE2(r.den, r.num)

\* the largest area of the catalog: largest diameter at the smallest spacing
AsMax == AS_GRID[1][Len(PHI_GRID)]

\* C1: choose_single_layer_rebar returns a choice whose provided area is at
\* least the required area (within the 1e-12 acceptance tolerance) whenever a
\* catalog pair within the bounds provides it, and the zero sentinel otherwise.
C1_SingleProvidesOrSentinel ==
    DoneSingle =>
        IF Feasible(args, args.As_req)
        THEN LE2(args.As_req, Add2(res.As_prov_mm2_per_m, TolFit))
        ELSE res = ZeroChoice

C1_Witness ==
    /\ DoneSingle
    /\ LT2(TolZero, args.As_req)
    /\ Feasible(args, args.As_req)
    /\ res.phi > 0
    /\ \E p \in Pairs : InBounds(p, args) /\ ~Provides(p, args.As_req)

\* C2: for a required area above the tolerance, no catalog pair within the
\* bounds that provides the required area has a smaller provided/required ratio
\* than the returned choice, and the returned choice is such a pair.
C2_SingleMinimalRatio ==
    (DoneSingle /\ LT2(TolZero, args.As_req)) =>
        /\ \A p \in Pairs :
              (InBounds(p, args) /\ Provides(p, args.As_req))
                  => ~RatioLT(Ratio(AreaOf(p), args.As_req), res.ratio)
        /\ Feasible(args, args.As_req) =>
              \E p \in Pairs : /\ InBounds(p, args)
                               /\ Provides(p, args.As_req)
                               /\ IsPair(res, p)
                               /\ res.ratio = Ratio(AreaOf(p), args.As_req)

C2_Witness ==
    /\ DoneSingle
    /\ LT2(TolZero, args.As_req)
    /\ res.phi > 0
    /\ \E p \in Pairs : /\ InBounds(p, args)
                         /\ Provides(p, args.As_req)
                         /\ RatioLT(res.ratio, Ratio(AreaOf(p), args.As_req))
                         /\ PHI_GRID[p[1]] < res.phi

\* C3 as stated: for every required area between 0 and the largest area of
\* the catalog the returned ratio is >= 1.0.
C3_RatioAtLeastOne ==
    (DoneSingle /\ LE2(Zero2, args.As_req) /\ LE2(args.As_req, AsMax))
        => RatioGE1(res.ratio)

\* C3 amended: for a required area above the near-zero tolerance and at most
\* the largest area of the catalog, with bounds that admit the largest diameter
\* at the smallest spacing, the returned choice is a catalog pair whose ratio is
\* provided/required with provided + 1e-12 cm2/m >= required; so the ratio is
\* >= 1.0 up to that tolerance.
C3_RatioAtLeastOneWithinTolerance ==
    (/\ DoneSingle
     /\ LT2(TolZero, args.As_req)
     /\ LE2(args.As_req, AsMax)
     /\ InBounds(<<Len(PHI_GRID), 1>>, args))
        => /\ res.phi > 0
           /\ res.ratio = Ratio(res.As_prov_cm2_per_m, args.As_req)
           /\ LE2(args.As_req, Add2(res.As_prov_cm2_per_m, TolFit))
           /\ LE2(args.As_req, res.As_prov_cm2_per_m) => RatioGE1(res.ratio)

\* a request answered with a pair that is short of the requirement by less than
\* the tolerance: its ratio is below 1.0
C3_Witness ==
    /\ DoneSingle
    /\ LT2(TolZero, args.As_req)
    /\ LE2(args.As_req, AsMax)
    /\ InBounds(<<Len(PHI_GRID), 1>>, args)
    /\ res.phi > 0
    /\ ~RatioGE1(res.ratio)

\* C4: the two layers of every returned layout have the same diameter, the
\* zero-requirement and the infeasible case included.
C4_SameDiameter == DoneMain => res.straight.phi = res.pilye.phi

C4_Witness ==
    /\ DoneMain
    /\ res.straight.phi > 0
    /\ res.straight.s_cm > 0
    /\ \E p \in Pairs : /\ InBounds(p, args)
                         /\ Provides(p, Half2(args.As_req))
                         /\ PHI_GRID[p[1]] # res.straight.phi

InSpacingBounds(c, a) ==
    /\ \E si \in 1..Len(S_GRID) : S_GRID[si] = c.s_cm
    /\ c.s_cm * 10 >= a.s_min
    /\ c.s_cm * 10 <= a.s_max

\* C5: a returned layout with a non-zero diameter, for a required area above
\* the near-zero check, provides in total at least the required area (each
\* layer within the acceptance tolerance) and each layer's spacing is a spacing
\* of S_GRID within [s_min, s_max].
C5_LayoutProvidesWithinBounds ==
    (DoneMain /\ res.straight.phi > 0 /\ LT2(TolZero, args.As_req)) =>
        /\ LE2(args.As_req,
               Add2(res.As_total_prov_mm2_per_m, Add2(TolFit, TolFit)))
        /\ InSpacingBounds(res.straight, args)
        /\ InSpacingBounds(res.pilye, args)

IsSentinelLayout(l) ==
    l.straight.phi = 0 /\ l.pilye.phi = 0 /\ l.As_total_prov_mm2_per_m = Zero2

\* some diameter >= phi_min has a spacing within the bounds that provides half
\* the required area
HalfFeasible(a) ==
    \E p \in Pairs : InBounds(p, a) /\ Provides(p, Half2(a.As_req))

\* C6: the sentinel layout is returned if the required area is (near) zero or
\* no diameter >= phi_min has a feasible spacing for both halves; in every other
\* case the layout has phi > 0.
C6_SentinelIffZeroOrInfeasible ==
    DoneMain =>
        IF LE2(args.As_req, TolZero) \/ ~HalfFeasible(args)
        THEN IsSentinelLayout(res)
        ELSE res.straight.phi > 0 /\ res.pilye.phi > 0

-----------------------------------------------------------------------------
(* Properties of the moment and reinforcement calculator *)

DoneCompute == pc = "done" /\ op = "compute" /\ res.raised = ""

DoneTwoWay == DoneCompute /\ res.out_x.slab_type = "two_way"

NetX == calculate_net_span(args.lx, args.beam_w_left_x, args.beam_w_right_x)

NetY == calculate_net_span(args.ly, args.beam_w_left_y, args.beam_w_right_y)

NetLong == Max(NetX, NetY)

NetShort == Min(NetX, NetY)

\* C7: the slab is one_way exactly when m = longer net span / shorter net span
\* is > 2.0 and two_way otherwise (m = 2.0 is two_way); both records carry the
\* same slab_type and the same m.
C7_Classification ==
    DoneCompute =>
        /\ res.out_x.slab_type = (IF NetLong > 2 * NetShort THEN "one_way" ELSE "two_way")
        /\ res.out_y.slab_type = res.out_x.slab_type
        /\ res.out_x.m.num * NetShort = NetLong * res.out_x.m.den
        /\ res.out_y.m = res.out_x.m

C7_Witness ==
    /\ DoneCompute
    /\ NetLong = 2 * NetShort
    /\ res.out_x.slab_type = "two_way"
    /\ res.out_y.slab_type = "two_way"

\* the bottom area derived from the moment alone, before any minimum
MomentArea(o) ==
    calc_K_and_As_from_M(o.M_pos_kNm_per_m, o.d_mm, args.concrete.value, args.steel)[3]

RhoMin == IF args.steel = "S220" THEN 3 ELSE 2

MinSingle == <<2 * (RhoMin * (args.h_mm - args.cover_mm) * 10), 0>>

MinTotal == <<2 * (35 * (args.h_mm - args.cover_mm)), 0>>

TopMin == <<2 * (20 * (args.h_mm - args.cover_mm)), 0>>

\* r is c rescaled by the factor total / sum, up to the rounding of one unit
RescaledBy(r, c, total, sum) ==
    /\ (r[1] + 2) * sum[1] >= c[1] * total[1]
    /\ (r[1] - 2) * sum[1] <= c[1] * total[1]

\* C8: in the two-way branch the combined minimum is tested on the sum of the
\* two moment-derived areas, taken before the per-direction minimum: if that sum
\* is below 0.0035 x 1000 x d both required bottom areas are rescaled upward by
\* the same factor (combined minimum / sum) so that they meet the combined
\* minimum, and if the sum is numerically zero the combined minimum is split
\* equally.
C8_CombinedMinimumOnMomentAreas ==
    DoneTwoWay =>
        LET AsxM == MomentArea(res.out_x)
            AsyM == MomentArea(res.out_y)
            sum == Add2(AsxM, AsyM)
            rx == res.out_x.As_pos_req_mm2_per_m
            ry == res.out_y.As_pos_req_mm2_per_m
        IN /\ (LT2(TolZero, sum) /\ LT2(sum, MinTotal)) =>
                 /\ RescaledBy(rx, Max2(AsxM, MinSingle), MinTotal, sum)
                 /\ RescaledBy(ry, Max2(AsyM, MinSingle), MinTotal, sum)
                 /\ LT2(Max2(AsxM, MinSingle), rx)
                 /\ LT2(Max2(AsyM, MinSingle), ry)
           /\ LE2(sum, TolZero) => (rx = Half2(MinTotal) /\ ry = Half2(MinTotal))

\* C9: in every two-way result each direction's required bottom area is at
\* least rho_min x 1000 x d (rho_min 0.003 for a steel name containing "220",
\* else 0.002) and the two directions together reach 0.0035 x 1000 x d.
C9_TwoWayMinimums ==
    DoneTwoWay =>
        /\ LE2(MinSingle, res.out_x.As_pos_req_mm2_per_m)
        /\ LE2(MinSingle, res.out_y.As_pos_req_mm2_per_m)
        /\ LE2(MinTotal, Add2(res.out_x.As_pos_req_mm2_per_m,
                              res.out_y.As_pos_req_mm2_per_m))

\* one direction governed by its moment, the other raised to the minimum, the
\* moment-derived sum being below the combined minimum
C9_Witness ==
    /\ DoneTwoWay
    /\ LT2(MomentArea(res.out_y), MinSingle)
    /\ res.out_y.As_pos_req_mm2_per_m = MinSingle
    /\ LT2(MinSingle, MomentArea(res.out_x))
    /\ LT2(Add2(MomentArea(res.out_x), MomentArea(res.out_y)), MinTotal)

NegMomentArea(o) ==
    calc_K_and_As_from_M(o.M_neg_kNm_per_m, o.d_mm, args.concrete.value, args.steel)[3]

TopAsClaimed(o) ==
    IF o.M_neg_kNm_per_m > 0
    THEN o.As_neg_req_mm2_per_m = Max2(NegMomentArea(o), TopMin)
    ELSE o.As_neg_req_mm2_per_m = Zero2 /\ o.top_layout = ZeroChoice

\* C10: in the two-way branch, per direction: with a negative moment present
\* the required top area is max(moment-derived area, 0.002 x 1000 x d); without
\* one it is 0 and the top layout is the zero sentinel.
C10_TopReinforcement ==
    DoneTwoWay => TopAsClaimed(res.out_x) /\ TopAsClaimed(res.out_y)

\* one direction without a negative moment, the other with one below and the
\* result at the floor
C10_Witness ==
    /\ DoneTwoWay
    /\ res.out_x.M_neg_kNm_per_m = 0
    /\ res.out_x.top_layout.phi = 0
    /\ res.out_y.M_neg_kNm_per_m > 0
    /\ res.out_y.As_neg_req_mm2_per_m = TopMin
    /\ LT2(NegMomentArea(res.out_y), TopMin)
    /\ res.out_y.top_layout.phi > 0

-----------------------------------------------------------------------------
(* Properties of the one-way branch and of the advisory checks *)

DoneOneWay == DoneCompute /\ res.out_x.slab_type = "one_way"

Outs == {res.out_x, res.out_y}

\* the sentinel layout as build_design stores it
IsZeroLayout(l) ==
    /\ l.straight = ZeroChoice
    /\ l.pilye = ZeroChoice
    /\ l.As_total_prov_mm2_per_m = Zero2

\* 0.20 x main and 0.0012 x 1000 x h, in units of 0.05 mm2/m
DistClaimed(As_main) ==
    IF As_main[1] \div 5 >= 24 * args.h_mm
    THEN <<As_main[1] \div 5, 0>> ELSE <<24 * args.h_mm, 0>>

\* C11: in the one-way branch the direction without a carried moment has
\* required bottom area 0 and the sentinel bottom layout and, when the main
\* direction's required area is > 0, gets dist_As_req = max(0.20 x main required
\* area, 0.0012 x 1000 x h) with dist_bars = choose_distribution_rebar of it;
\* the moment-carrying direction never gets distribution bars.
C11_OneWayDistribution ==
    DoneOneWay =>
        \A o \in Outs : \A other \in Outs \ {o} :
            IF o.M_pos_kNm_per_m > 0
            THEN o.dist_bars = None /\ o.dist_As_req_mm2_per_m = Zero2
            ELSE /\ o.As_pos_req_mm2_per_m = Zero2
                 /\ IsZeroLayout(o.main_bottom_layout)
                 /\ LT2(Zero2, other.As_pos_req_mm2_per_m) =>
                        /\ o.dist_As_req_mm2_per_m =
                               DistClaimed(other.As_pos_req_mm2_per_m)
                        /\ o.dist_bars =
                               choose_distribution_rebar(o.dist_As_req_mm2_per_m)

\* a one-way result whose distribution area is 20 % of the main area, above
\* the 0.0012 x 1000 x h floor, and is answered with real bars
C11_Witness ==
    /\ DoneOneWay
    /\ res.out_x.M_pos_kNm_per_m = 0
    /\ res.out_y.M_pos_kNm_per_m > 0
    /\ res.out_x.dist_As_req_mm2_per_m[1] > 24 * args.h_mm
    /\ res.out_x.dist_bars # None
    /\ res.out_x.dist_bars.phi > 0
    /\ res.out_y.dist_bars = None

\* the record of the direction with the longer net span, and the other one
LongNetOut == IF NetX >= NetY THEN res.out_x ELSE res.out_y

ShortNetOut == IF NetX >= NetY THEN res.out_y ELSE res.out_x

\* C12: in every one-way result exactly one direction carries a positive
\* moment, and it is the direction whose net span is the longer one; the
\* orthogonal direction has M_pos = 0 and M_neg = 0, also when the gross spans
\* are ordered differently from the net spans.
C12_MomentOnLongNetSpan ==
    DoneOneWay =>
        /\ LongNetOut.M_pos_kNm_per_m > 0
        /\ ShortNetOut.M_pos_kNm_per_m = 0
        /\ ShortNetOut.M_neg_kNm_per_m = 0

\* q/g > 2.0 or shorter net span / longer net span <= 0.8
Flagged ==
    \/ args.q_live > 2 * (25 * args.h_mm + args.g_additional)
    \/ 10 * NetShort <= 8 * NetLong

\* the record o carries the warning message
WarningIn(o) ==
    /\ "coef_msg" \in DOMAIN o.edges_continuity_note
    /\ Len(o.edges_continuity_note.coef_msg) > 0

\* C13: whenever the coefficient method is flagged inapplicable, compute
\* attaches the warning message to both returned records, in the one-way and in
\* the two-way branch (and computes the same moments, areas and bars as without
\* the flag).
C13_WarningAttached ==
    (DoneCompute /\ Flagged) => WarningIn(res.out_x) /\ WarningIn(res.out_y)

\* the record o is a complete design: moments, required areas and selections
CompleteOut(o) ==
    /\ o.slab_type \in {"one_way", "two_way"}
    /\ o.M_pos_kNm_per_m >= 0
    /\ o.main_bottom_layout # None
    /\ o.top_layout # None
    /\ o.M_pos_kNm_per_m > 0 =>
           /\ LT2(Zero2, o.As_pos_req_mm2_per_m)
           /\ o.main_bottom_layout =
                  choose_main_rebar_half_half_same_phi(
                      o.As_pos_req_mm2_per_m, Min((3 * args.h_mm) \div 2, 200), 70, 8)

\* C14: the thickness check never gates the design: compute returns both
\* direction records, fully computed, whether ThicknessCheck.ok is true or
\* false; the failure is only recorded in the ThicknessCheck record, whose ok is
\* false exactly when h_mm < h_min.
C14_ThicknessAdvisory ==
    DoneCompute =>
        /\ res.out_x.direction = "X" /\ CompleteOut(res.out_x)
        /\ res.out_y.direction = "Y" /\ CompleteOut(res.out_y)
        /\ res.thk.ok <=> ~(args.h_mm * res.thk.h_min_mm.den < res.thk.h_min_mm.num)
        /\ res.thk.h_min_mm.num >= 80 * res.thk.h_min_mm.den

\* a failed thickness check next to a design with selected bars
C14_Witness ==
    /\ DoneCompute
    /\ ~res.thk.ok
    /\ args.h_mm * res.thk.h_min_mm.den < res.thk.h_min_mm.num
    /\ \E o \in Outs : /\ o.M_pos_kNm_per_m > 0
                       /\ o.main_bottom_layout.straight.phi > 0
                       /\ o.main_bottom_layout.straight.s_cm > 0

StoredCompute == pc = "stored" /\ op = "compute"

\* the requests build_design makes of the catalog for the record o
BottomRequest(o) ==
    [As_req |-> o.As_pos_req_mm2_per_m, s_max |-> Min((3 * args.h_mm) \div 2, 200),
     s_min |-> 70, phi_min |-> 8]

TopRequest(o) ==
    [As_req |-> o.As_neg_req_mm2_per_m, s_max |-> Min(2 * args.h_mm, 200),
     s_min |-> 70, phi_min |-> 8]

BottomInfeasible(o) == LT2(TolZero, o.As_pos_req_mm2_per_m) /\ ~HalfFeasible(BottomRequest(o))

TopInfeasible(o) ==
    LT2(TolZero, o.As_neg_req_mm2_per_m) /\ ~Feasible(TopRequest(o), o.As_neg_req_mm2_per_m)

\* C15: infeasible reinforcement is never an exception: when no catalog
\* combination provides a required area within the spacing bounds, compute
\* still completes with both direction records, the affected selection is the
\* zero-diameter sentinel (not None), and create_design_result renders that
\* sentinel as "-".
C15_InfeasibleIsSentinel ==
    /\ (pc \in {"done", "stored"} /\ op = "compute" /\ parse_concrete(args.concrete).raised = "") =>
           /\ res.raised = ""
           /\ res.out_x.direction = "X" /\ res.out_y.direction = "Y"
           /\ \A o \in Outs :
                  /\ o.top_layout # None /\ o.main_bottom_layout # None
                  /\ TopInfeasible(o) => o.top_layout = ZeroChoice
                  /\ BottomInfeasible(o) =>
                         /\ o.main_bottom_layout.straight = ZeroChoice
                         /\ o.main_bottom_layout.pilye = ZeroChoice
    /\ StoredCompute =>
           /\ TopInfeasible(res.out_x) => res.row.x_top = "-"
           /\ TopInfeasible(res.out_y) => res.row.y_top = "-"
           /\ BottomInfeasible(res.out_x) =>
                  res.row.x_bottom_main = "-" /\ res.row.x_bottom_pilye = "-"
           /\ BottomInfeasible(res.out_y) =>
                  res.row.y_bottom_main = "-" /\ res.row.y_bottom_pilye = "-"

\* a stored one-way design whose support steel exceeds the catalog: the top
\* selection is the sentinel and its column is "-", next to rendered
\* distribution bars
C15_Witness ==
    /\ StoredCompute
    /\ \/ /\ TopInfeasible(res.out_x) /\ res.out_x.top_layout = ZeroChoice
          /\ res.row.x_top = "-"
       \/ /\ TopInfeasible(res.out_y) /\ res.out_y.top_layout = ZeroChoice
          /\ res.row.y_top = "-"
    /\ res.row.distribution_bars # "-"

DoneValidateGrade == pc = "done" /\ op = "validate_concrete_grade"

\* not "C" followed by a number
Malformed(name) == name.letter \notin {"C", "c"} \/ ~name.numeric

\* C16: a concrete grade that is not "C" followed by a number makes
\* parse_concrete raise, and compute propagates the error with no partial
\* result; validate_concrete_grade never raises and returns (False, message)
\* for malformed grades and for grades below C25.
C16_GradeErrors ==
    /\ (pc = "done" /\ op = "compute" /\ Malformed(args.concrete)) =>
           /\ parse_concrete(args.concrete).raised = "ValueError"
           /\ res = [raised |-> "ValueError"]
    /\ DoneValidateGrade =>
           /\ res.raised = ""
           /\ Malformed(args) => ~res.ok
           /\ (~Malformed(args) /\ args.special = "" /\ args.value < 25) => ~res.ok

-----------------------------------------------------------------------------
(* Properties of the design-chart lookup *)

DoneKs == pc = "done" /\ op = "ks_from_Kcalc"

RowCount == Len(K_TABLE_ROWS)

\* the capacity value of row i at the grade of the call
Kv(i) == K_row_concrete_value(K_TABLE_ROWS[i], args.fck)

\* column B (Python index 8) for a name with "500", else column A (index 7)
ChartColumn == IF Has500(args.steel) THEN 9 ELSE 8

RowKs(i) == K_TABLE_ROWS[i][ChartColumn]

\* K lies strictly inside the chart
Inside(K) == Kv(RowCount) < K /\ K < Kv(1)

\* C17 as stated: for K1 <= K2 (same grade and steel), ks(K1) <= ks(K2).
C17_NonDecreasingInK == (DoneKs /\ args.K1 <= args.K2) => res[1] <= res[2]

\* C17: the lookup is monotonic in the other direction: for K1 <= K2 (same
\* grade and steel), ks(K1) >= ks(K2); the coefficient never increases with K.
C17_NonIncreasingInK == (DoneKs /\ args.K1 <= args.K2) => res[1] >= res[2]

\* two entries strictly inside the chart with different coefficients
C17_Witness ==
    /\ DoneKs
    /\ Inside(args.K1) /\ Inside(args.K2)
    /\ args.K1 < args.K2
    /\ res[1] > res[2]

\* the result r for the entry K follows the clamps and the interpolation
ChartRule(K, r) ==
    IF K >= Kv(1) THEN r = RowKs(1)
    ELSE IF K <= Kv(RowCount) THEN r = RowKs(RowCount)
    ELSE \E i \in 2..RowCount :
            /\ Kv(i) <= K /\ K <= Kv(i - 1)
            /\ r = RowKs(i - 1) + ((RowKs(i) - RowKs(i - 1)) * (K - Kv(i - 1))) \div (Kv(i) - Kv(i - 1))
            /\ Min(RowKs(i - 1), RowKs(i)) <= r /\ r <= Max(RowKs(i - 1), RowKs(i))
            /\ r = RowKs(i) <=> K = Kv(i)

\* C18: a K at or above the first row's capacity value returns the first row's
\* coefficient, a K at or below the last row's value returns the last row's
\* coefficient, and otherwise the result is the linear interpolation between
\* two adjacent rows i-1, i with Kvals[i] <= K <= Kvals[i-1]: it lies between
\* their coefficients and equals row i's exactly when K = Kvals[i]. The column
\* is B iff the steel name contains "500", else A.
C18_ClampAndAdjacentRows ==
    DoneKs => ChartRule(args.K1, res[1]) /\ ChartRule(args.K2, res[2])

\* an entry strictly between two rows at an interpolated grade, read in column
\* B, next to an entry on a row
C18_Witness ==
    /\ DoneKs
    /\ Has500(args.steel) /\ args.fck = 32
    /\ Inside(args.K1) /\ \A i \in 1..RowCount : Kv(i) # args.K1
    /\ \E i \in 2..RowCount : RowKs(i - 1) < res[1] /\ res[1] < RowKs(i)
    /\ \E i \in 2..(RowCount - 1) : Kv(i) = args.K2 /\ res[2] = RowKs(i)

-----------------------------------------------------------------------------
(* Properties of the piecewise interpolation *)

DoneInterp == pc = "done" /\ op = "interp_piecewise"

Keys == DOMAIN args.points

\* the tabulated value at key k, in the unit of the result
Tab(k) == args.points[k] * 100

\* x compared with the key k
XBelow(k) == 100 * args.x.num < k * args.x.den

XAbove(k) == 100 * args.x.num > k * args.x.den

XAt(k) == 100 * args.x.num = k * args.x.den

\* the result is the value v (res.den is the unit, 1e-5)
ResIs(v) == res.num * 100000 = v * res.den

ResBetween(v, w) ==
    /\ Min(v, w) * res.den <= res.num * 100000
    /\ res.num * 100000 <= Max(v, w) * res.den

Adjacent(k1, k2) == k1 < k2 /\ \A k \in Keys : ~(k1 < k /\ k < k2)

-----------------------------------------------------------------------------
(* Properties of the area grid *)

DoneGrid == pc = "done" /\ op = "AS_GRID"

\* C20: for all (spacing, diameter) of the catalog, AS_GRID[si][pj] is
\* as_cm2_per_m(PHI_GRID[pj], S_GRID[si]); it is strictly decreasing in the
\* spacing for a fixed diameter and strictly increasing in the diameter for a
\* fixed spacing.
C20_GridMonotone ==
    DoneGrid =>
        /\ res[1] = as_cm2_per_m(PHI_GRID[args.pj], S_GRID[args.si])
        /\ (args.pj = args.pj2 /\ S_GRID[args.si] < S_GRID[args.si2]) => LT2(res[2], res[1])
        /\ (args.si = args.si2 /\ PHI_GRID[args.pj] < PHI_GRID[args.pj2]) => LT2(res[1], res[2])

\* two neighbouring spacings of one diameter
C20_Witness ==
    /\ DoneGrid
    /\ args.pj = args.pj2 /\ args.si2 = args.si + 1
    /\ S_GRID[args.si] < S_GRID[args.si2]
    /\ LT2(res[2], res[1]) /\ LT2(Zero2, res[2])

-----------------------------------------------------------------------------
(* Properties of the per-diameter search, of the spans, loads and thickness *)

DoneBest == pc = "done" /\ op = "best_spacing_for_phi"

\* C21: the per-diameter search rejects a diameter outside the catalog: for
\* every required area and every phi not in PHI_GRID, best_spacing_for_phi
\* returns None and never a BarChoice carrying that diameter.
C21_OffCatalogRejected ==
    (DoneBest /\ ~PhiInGrid(args.phi)) => res = None

\* C22: the net span is max(L - (w_left + w_right) / 2, 0.1 m): never below
\* 0.1 m, and compute records exactly these values as Lsn_x and Lsn_y in both
\* direction records (lengths in mm).
C22_NetSpans ==
    DoneCompute =>
        \A o \in Outs :
            /\ 2 * o.Lsn_x = Max(2 * args.lx - (args.beam_w_left_x + args.beam_w_right_x), 200)
            /\ 2 * o.Lsn_y = Max(2 * args.ly - (args.beam_w_left_y + args.beam_w_right_y), 200)
            /\ o.Lsn_x >= 100 /\ o.Lsn_y >= 100

\* the deduction exceeds the x span, which is recorded as 0.1 m next to a y
\* span that is above the floor
C22_Witness ==
    /\ DoneCompute
    /\ 2 * args.lx < args.beam_w_left_x + args.beam_w_right_x
    /\ res.out_x.Lsn_x = 100 /\ res.out_y.Lsn_x = 100
    /\ res.out_x.Lsn_y > 100 /\ res.out_y.Lsn_y = res.out_x.Lsn_y
    /\ res.out_x.Lsn_y < args.ly

\* C23: the load summary of compute has g_self_weight = (h_mm / 1000) x 25,
\* g_total = g_self_weight + g_additional and pd_factored = 1.4 x g_total +
\* 1.6 x q_live, with q_live and g_additional passed through unchanged (loads
\* in 1e-3 kN/m2, pd in 1e-4 kN/m2).
C23_LoadSummary ==
    DoneCompute =>
        /\ res.load.g_self_weight = args.h_mm * 25
        /\ res.load.g_additional = args.g_additional
        /\ res.load.q_live = args.q_live
        /\ res.load.g_total = args.h_mm * 25 + args.g_additional
        /\ res.load.pd_factored = 14 * (args.h_mm * 25 + args.g_additional) + 16 * args.q_live

\* h = 100 mm, 3.0 additional dead load and 5.0 live load: pd = 15.7
C23_Witness ==
    /\ DoneCompute
    /\ args.h_mm = 100 /\ args.g_additional = 3000 /\ args.q_live = 5000
    /\ res.load.g_total = 5500
    /\ res.load.pd_factored = 157000

DoneThkOneway == pc = "done" /\ op = "thickness_check_oneway"

DoneThkTwoway == pc = "done" /\ op = "thickness_check_twoway"

\* max(f, 80) for the fraction f
AtLeast80(f) == IF f.num >= 80 * f.den THEN f ELSE Frac(80, 1)

RECURSIVE GCD(_, _)
GCD(a, b) == IF b = 0 THEN a ELSE GCD(b, a % b)

\* the fraction f (num >= 0, den > 0) in lowest terms
Reduced(f) == Frac(f.num \div GCD(f.num, f.den), f.den \div GCD(f.num, f.den))

FracEq(f, g) == Reduced(f) = Reduced(g)

\* Lsn x 1000 / 30, mm
OnewayClaimed == Frac(args.Lsn_long, 30)

\* Lsn_short x 1000 / (15 + 20 / m) x (1 - alpha_s / 4) with
\* m = max(Lsn_long / Lsn_short, 1), mm
TwowayClaimed ==
    IF args.Lsn_long >= args.Lsn_short
    THEN Frac(args.Lsn_short * args.Lsn_long * (4 - args.alpha_s),
              (15 * args.Lsn_long + 20 * args.Lsn_short) * 4)
    ELSE Frac(args.Lsn_short * (4 - args.alpha_s), 35 * 4)

\* C24: thickness_check_oneway yields h_min = max(Lsn x 1000 / 30, 80) and
\* ok = (h >= h_min), so a thickness equal to h_min passes;
\* thickness_check_twoway yields h_min = max(Lsn_short x 1000 / (15 + 20 / m) x
\* (1 - alpha_s / 4), 80) with m = max(Lsn_long / Lsn_short, 1); h_min is never
\* below 80 in either check.
C24_ThicknessFormulas ==
    /\ DoneThkOneway =>
           /\ FracEq(res.h_min_mm, AtLeast80(OnewayClaimed))
           /\ res.ok <=> args.h_mm * res.h_min_mm.den >= res.h_min_mm.num
           /\ res.h_min_mm.num >= 80 * res.h_min_mm.den
    /\ DoneThkTwoway =>
           /\ FracEq(res.h_min_mm, AtLeast80(TwowayClaimed))
           /\ res.ok <=> args.h_mm * res.h_min_mm.den >= res.h_min_mm.num
           /\ res.h_min_mm.num >= 80 * res.h_min_mm.den

\* 3.0 m by 6.0 m: m = 2, h_min = 3000 / 25 = 120 mm, and h = 120 mm passes
C24_FormulaWitness ==
    /\ DoneThkTwoway
    /\ args.Lsn_short = 3000 /\ args.Lsn_long = 6000 /\ args.alpha_s = 0
    /\ args.h_mm = 120
    /\ res.h_min_mm.num = 120 * res.h_min_mm.den
    /\ res.ok

\* the selected bar c (phi > 0) has spacing in [s_min, s_max] mm and diameter
\* at least phi_min
BarWithin(c, s_min, s_max, phi_min) ==
    c.phi > 0 => (c.s_cm * 10 >= s_min /\ c.s_cm * 10 <= s_max /\ c.phi >= phi_min)

\* min(factor x h, 200) with factor = twice / 2
SMaxClaimed(twice) == IF twice * args.h_mm <= 400 THEN (twice * args.h_mm) \div 2 ELSE 200

\* C25: in every design returned by compute every selected bar with phi > 0
\* respects its bounds: bottom straight and pilye spacings are >= 70 mm and
\* <= min(1.5 x h, 200), the top spacing is >= 70 mm and <= min(2.0 x h, 200),
\* all with diameter >= 8; distribution bars have spacing in [70, 300] mm and
\* diameter >= 6.
C25_SpacingBounds ==
    DoneCompute =>
        \A o \in Outs :
            /\ BarWithin(o.main_bottom_layout.straight, 70, SMaxClaimed(3), 8)
            /\ BarWithin(o.main_bottom_layout.pilye, 70, SMaxClaimed(3), 8)
            /\ BarWithin(o.top_layout, 70, SMaxClaimed(4), 8)
            /\ o.dist_bars # None => BarWithin(o.dist_bars, 70, 300, 6)

\* a one-way design of a 100 mm slab: main bars at the 150 mm bound or closer,
\* top bars selected, distribution bars wider than 200 mm
C25_Witness ==
    /\ DoneOneWay
    /\ args.h_mm = 100
    /\ \E o \in Outs :
           /\ o.main_bottom_layout.straight.phi >= 8
           /\ o.main_bottom_layout.straight.s_cm * 10 <= 150
           /\ o.top_layout.phi >= 8 /\ o.top_layout.s_cm * 10 <= 200
    /\ \E o \in Outs :
           /\ o.dist_bars # None /\ o.dist_bars.phi >= 6
           /\ o.dist_bars.s_cm * 10 > 200 /\ o.dist_bars.s_cm * 10 <= 300

-----------------------------------------------------------------------------
(* Properties of the persistence store *)

InSession == op = "database"

Called(call) == InSession /\ pc = "done" /\ args.call = call

\* the rows stored under the slab identifier
RowsOf(slab_id) == {r \in db.rows : r.slab_id = slab_id}

\* what is stored under the slab identifier: the saved result, or None
Stored(slab_id) ==
    IF RowsOf(slab_id) = {} THEN None
    ELSE LET r == CHOOSE r \in RowsOf(slab_id) : TRUE
         IN [slab_id |-> r.slab_id, thickness_ok |-> r.thickness_ok = 1,
             created_at |-> r.created_at, notes |-> r.notes]

\* at most one row per slab_id; get_design returns what is stored;
\* list_designs returns one entry per stored slab_id
StoreState ==
    /\ InSession => \A slab_id \in SlabIds : Cardinality(RowsOf(slab_id)) <= 1
    /\ Called("get_design") => res = Stored(args.slab_id)
    /\ Called("list_designs") =>
           /\ Len(res) = Cardinality({slab_id \in SlabIds : RowsOf(slab_id) # {}})
           /\ \A slab_id \in SlabIds :
                  RowsOf(slab_id) # {} =>
                      Cardinality({i \in 1..Len(res) : res[i] = Stored(slab_id)}) = 1

\* a call changes what is stored only as its contract says
StoreStep ==
    InSession =>
        /\ args'.call = "save_design" =>
               \A slab_id \in SlabIds :
                   Stored(slab_id)' = IF slab_id = args'.result.slab_id THEN args'.result
                                      ELSE Stored(slab_id)
        /\ args'.call = "delete_design" =>
               /\ res' = (Stored(args'.slab_id) # None)
               /\ \A slab_id \in SlabIds :
                      Stored(slab_id)' = IF slab_id = args'.slab_id THEN None
                                         ELSE Stored(slab_id)
        /\ args'.call \in {"get_design", "list_designs"} =>
               \A slab_id \in SlabIds : Stored(slab_id)' = Stored(slab_id)

\* C26: the store is keyed by a unique slab identifier: after any sequence of
\* save_design and delete_design calls there is at most one row per slab_id;
\* get_design(id) returns the most recently saved result for id, or None if id
\* was never saved or was deleted since; list_designs returns exactly one entry
\* per stored slab_id; delete_design(id) returns True iff a row for id existed.
C26_KeyedStore == [](StoreState) /\ [][StoreStep]_vars

\* S1 was saved again over its first row and S2 is stored next to it; the
\* listing has the two entries
C26_Witness ==
    /\ Called("list_designs")
    /\ Len(res) = 2
    /\ \E r \in RowsOf("S1") : r.id = 3
    /\ \E r \in RowsOf("S2") : r.id = 2

-----------------------------------------------------------------------------
(* Properties of concurrent callers *)

\* the outcome of the call run alone on the tables as imported
Alone(call) == [read |-> SharedTables, res |-> Run(call)]

-----------------------------------------------------------------------------
(* Properties of the searches as loops *)

Returned == search.pc = "returned"

\* every diameter at most once; per diameter every spacing at most once, twice
\* in the half-half search
VisitBound ==
    /\ \A j \in 1..Len(PHI_GRID) : search.vphi[j] <= 1
    /\ \A j \in 1..Len(PHI_GRID) : \A i \in 1..Len(S_GRID) :
           search.vs[j][i] <= (IF search.kind = "main" THEN 2 ELSE 1)

\* the loop returns a BarChoice or a MainRebarLayout, never None: the value of
\* the search for these arguments
ReturnsResult ==
    Returned =>
        /\ search.result # None
        /\ search.result =
               IF search.kind = "single"
               THEN choose_single_layer_rebar(search.a.As_req, search.a.s_max,
                                              search.a.s_min, search.a.phi_min)
               ELSE choose_main_rebar_half_half_same_phi(search.a.As_req, search.a.s_max,
                                                         search.a.s_min, search.a.phi_min)

\* C28: every bar-selection search terminates: both searches visit every
\* diameter of PHI_GRID at most once and, per diameter, every spacing of S_GRID
\* at most once (twice for the half-half variant), and return a result for
\* every input, including infeasible and zero requirements.
C28_SearchTerminates == [](VisitBound /\ ReturnsResult) /\ <>Returned

\* a half-half search beyond the catalog has returned its sentinel after two
\* scans of every spacing of every diameter from phi_min
C28_Witness ==
    /\ op = "search" /\ Returned
    /\ search.kind = "main" /\ search.a.phi_min = 8
    /\ search.result.straight.phi = 0
    /\ LT2(TolZero, search.a.As_req)
    /\ \A j \in 1..Len(PHI_GRID) : search.vphi[j] = 1
    /\ \A j \in 2..Len(PHI_GRID) : \A i \in 1..Len(S_GRID) : search.vs[j][i] = 2

-----------------------------------------------------------------------------
(* Properties of the two-way assignment and of the half-half layout *)

\* the coefficients of the slab case at m = longer / shorter net span
ShortPos == interp_piecewise(pts(SlabCaseGet(args.slab_case).short_pos), Frac(NetLong, NetShort))

ShortNeg ==
    IF Len(SlabCaseGet(args.slab_case).short_neg) > 0
    THEN interp_piecewise(pts(SlabCaseGet(args.slab_case).short_neg), Frac(NetLong, NetShort))
    ELSE Frac(0, 1)

LongPos == Frac(SlabCaseGet(args.slab_case).long_pos, 1000)

LongNeg == Frac(SlabCaseGet(args.slab_case).long_neg, 1000)

\* the record o carries the coefficients pos, neg and their moments on the
\* base pd x L_short_net^2
Carries(o, pos, neg) ==
    /\ FracEq(o.a_pos_used, pos) /\ FracEq(o.a_neg_used, neg)
    /\ o.M_pos_kNm_per_m = MomentOf(pos, MomentBase(res.load.pd_factored, NetShort))
    /\ o.M_neg_kNm_per_m = MomentOf(neg, MomentBase(res.load.pd_factored, NetShort))

\* C29: in every two-way result the short-direction coefficients (interpolated
\* at m) are on the direction whose net span is the shorter one and the
\* long-direction constants on the direction whose net span is the longer one,
\* also when unequal beam widths order the gross spans differently from the
\* net spans.
C29_ShortCoefficientsOnShortNetSpan ==
    DoneTwoWay =>
        /\ NetX < NetY =>
               Carries(res.out_x, ShortPos, ShortNeg) /\ Carries(res.out_y, LongPos, LongNeg)
        /\ NetY < NetX =>
               Carries(res.out_y, ShortPos, ShortNeg) /\ Carries(res.out_x, LongPos, LongNeg)

\* choose_single_layer_rebar on half the required area of the half-half call
SingleOnHalf ==
    choose_single_layer_rebar(Half2(args.As_req), args.s_max, args.s_min, args.phi_min)

SameBar(c, d) ==
    c.phi = d.phi /\ c.s_cm = d.s_cm /\ c.As_prov_mm2_per_m = d.As_prov_mm2_per_m

\* the layout ratio r (summed provided / total required) and the choice ratio
\* q (provided / half required) are the same number
SameQuotient(r, q) ==
    \/ r.num = Zero2 /\ q.num = Zero2
    \/ r.num = Add2(q.num, q.num) /\ r.den = Add2(q.den, q.den)

\* C30: for every required area A above the near-zero check and every
\* (s_max, s_min, phi_min), straight and pilye of the half-half layout are the
\* same bar (diameter, spacing, provided area), each equal to
\* choose_single_layer_rebar(A/2, s_max, s_min, phi_min), the layout ratio is
\* that choice's ratio, and the half-half search is feasible exactly when the
\* single-layer search for A/2 is.
C30_HalfHalfIsSingleOnHalf ==
    (DoneMain /\ LT2(TolZero, args.As_req)) =>
        /\ SameBar(res.straight, res.pilye)
        /\ SameBar(res.straight, SingleOnHalf)
        /\ SameQuotient(res.ratio, SingleOnHalf.ratio)
        /\ (res.straight.phi > 0) <=> (SingleOnHalf.phi > 0)

====
